---- MODULE Spec2Model ----
(***************************************************************************)
(* State-machine model of the Slack command pipeline of alpha-machine:     *)
(*   services/slackbot/command_handler.py  (SlackCommandHandler)           *)
(*   services/slackbot/event_handler.py    (SlackEventHandler)             *)
(*   shared/services/linear_service.py     (LinearService)                 *)
(* The two per-user in-memory maps, the test-mode flag and a wall clock    *)
(* are the state; every handler is one action.  The variable `last` is an  *)
(* observation record of the handler that ran last (its inputs, what it    *)
(* read, what it sent and what it returned).                               *)
(***************************************************************************)
EXTENDS Integers, Sequences, FiniteSets, TLC

(***************************************************************************)
(* Bounds of the model                                                     *)
(***************************************************************************)
MaxTime == 11
MaxTickets == 2
MaxRequests == 2

(***************************************************************************)
(* Program constants                                                       *)
(***************************************************************************)
SELECTION_TIMEOUT_MINUTES == 10
PENDING_TICKET_TIMEOUT_MINUTES == 10
CompactAnalysisBudget == 1400
REQUEST_MAX_AGE_MINUTES == 5

(***************************************************************************)
(* Input domains                                                           *)
(***************************************************************************)
Users == {"U1", "U2"}
TranscriptIds == {"t1", "t2"}
\* the option sets a multi-select action can carry (none, one, all)
SelectableIdSets == {{}, {"t1"}, {"t1", "t2"}}
\* the clock advances by the timeout or by one minute more than the timeout,
\* so that ages of exactly 10 minutes and of 11 minutes both occur
TickSteps == {SELECTION_TIMEOUT_MINUTES, SELECTION_TIMEOUT_MINUTES + 1}

\* a text is (content, length); an empty text has length 0
Str(body, len) == [body |-> body, len |-> len, dots |-> FALSE]
EmptyStr == Str("", 0)
\* Python truthiness of a string
Truthy(s) == s.len > 0
\* s[:n] + "..." if len(s) > n else s
TruncateWithDots(s, n) ==
    IF s.len > n THEN [body |-> s.body, len |-> n, dots |-> TRUE] ELSE s

VARIABLES
    LINEAR_TEST_MODE,             \* Config.LINEAR_TEST_MODE
    now,                          \* datetime.now(), in minutes
    USER_TRANSCRIPT_SELECTIONS,   \* user id -> selection entry
    USER_PENDING_TICKETS,         \* user id -> pending ticket entry
    button,                       \* user id -> value of the yes/no buttons last shown
    inflight,                     \* the commands issued whose AI call is awaited or has returned, in the order issued
    last                          \* observation of the handler that ran last

vars == <<LINEAR_TEST_MODE, now, USER_TRANSCRIPT_SELECTIONS,
          USER_PENDING_TICKETS, button, inflight, last>>

(***************************************************************************)
(* Transcript selections (command_handler.py 205-230)                      *)
(***************************************************************************)
NoSelection == [present |-> FALSE, transcript_ids |-> {}, timestamp |-> 0]

\* a store that adds to the entry it finds and keeps its timestamp
store_user_selection_merging(sel, user_id, transcript_ids, t) ==
    IF sel[user_id].present
    THEN [sel EXCEPT ![user_id].transcript_ids = @ \cup transcript_ids]
    ELSE [sel EXCEPT ![user_id] =
             [present |-> TRUE, transcript_ids |-> transcript_ids, timestamp |-> t]]

store_user_selection(sel, user_id, transcript_ids, t) ==
    [sel EXCEPT ![user_id] =
        [present |-> TRUE, transcript_ids |-> transcript_ids, timestamp |-> t]]

\* a read that never checks the age of the entry
get_user_selection_unexpiring(sel, user_id, t) ==
    IF ~sel[user_id].present
    THEN [some |-> FALSE, ids |-> {}, sel |-> sel]
    ELSE [some |-> TRUE, ids |-> sel[user_id].transcript_ids, sel |-> sel]

\* returns the value read (some = FALSE for None) and the map after the read
get_user_selection(sel, user_id, t) ==
    IF ~sel[user_id].present
    THEN [some |-> FALSE, ids |-> {}, sel |-> sel]
    ELSE IF t - sel[user_id].timestamp > SELECTION_TIMEOUT_MINUTES
         THEN [some |-> FALSE, ids |-> {},
               sel |-> [sel EXCEPT ![user_id] = NoSelection]]
         ELSE [some |-> TRUE, ids |-> sel[user_id].transcript_ids, sel |-> sel]

clear_user_selection(sel, user_id) ==
    IF sel[user_id].present THEN [sel EXCEPT ![user_id] = NoSelection] ELSE sel

(***************************************************************************)
(* LinearService (shared/services/linear_service.py).  Every operation     *)
(* returns whether it raised the safety error, whether it returned a       *)
(* truthy value, and the trace of what happened inside it: <<"call", op>>, *)
(* <<"req", name>> for a request handed to _make_request, <<"raise", op>>  *)
(* and <<"ret", op>>.  env is the behaviour of the tracker during the      *)
(* call: env.team (the team exists), env.lookup (the project/milestone     *)
(* lookup finds it, misses it, or the request fails), env.createOk (a      *)
(* project/milestone mutation succeeds), env.failAt (the index of the      *)
(* issueCreate mutation that fails, 0 for none).                           *)
(***************************************************************************)
Envs == [team : BOOLEAN, lookup : {"found", "notfound", "error"},
         createOk : BOOLEAN, failAt : 0..MaxTickets]

Mutations == {"projectMilestoneCreate", "projectCreate", "issueCreate",
              "issueDelete", "issueUpdate"}
WriteOps == {"create_issue", "create_milestone", "_create_project",
             "_delete_issue", "update_issue"}

Result(raised, ok, trace) == [raised |-> raised, ok |-> ok, trace |-> trace]

get_team_id(env) ==
    Result(FALSE, env.team, <<<<"call", "get_team_id">>, <<"req", "teams">>,
                              <<"ret", "get_team_id">>>>)

get_user_id(env) ==
    Result(FALSE, TRUE, <<<<"call", "get_user_id">>, <<"req", "users">>,
                          <<"ret", "get_user_id">>>>)

get_milestone_id(env) ==
    Result(FALSE, env.lookup = "found",
           <<<<"call", "get_milestone_id">>, <<"req", "projectMilestones">>,
             <<"ret", "get_milestone_id">>>>)

\* a create_milestone without the safety gate
create_milestone_ungated(tm, env) ==
    Result(FALSE, env.createOk,
           <<<<"call", "create_milestone">>, <<"req", "projectMilestoneCreate">>,
             <<"ret", "create_milestone">>>>)

create_milestone(tm, env) ==
    IF ~tm
    THEN Result(TRUE, FALSE, <<<<"call", "create_milestone">>,
                               <<"raise", "create_milestone">>>>)
    ELSE Result(FALSE, env.createOk,
                <<<<"call", "create_milestone">>,
                  <<"req", "projectMilestoneCreate">>,
                  <<"ret", "create_milestone">>>>)

get_or_create_milestone(tm, env) ==
    LET g == get_milestone_id(env)
        c == create_milestone(tm, env)
        head == <<<<"call", "get_or_create_milestone">>>> \o g.trace
    IN  IF g.ok
        THEN Result(FALSE, TRUE, head \o <<<<"ret", "get_or_create_milestone">>>>)
        ELSE IF c.raised
             THEN Result(TRUE, FALSE,
                         head \o c.trace \o <<<<"raise", "get_or_create_milestone">>>>)
             ELSE Result(FALSE, c.ok,
                         head \o c.trace \o <<<<"ret", "get_or_create_milestone">>>>)

create_project(tm, env) ==
    LET t == get_team_id(env)
    IN  IF ~tm
        THEN Result(TRUE, FALSE, <<<<"call", "_create_project">>,
                                   <<"raise", "_create_project">>>>)
        ELSE IF ~t.ok
             THEN Result(FALSE, FALSE,
                         <<<<"call", "_create_project">>>> \o t.trace
                            \o <<<<"ret", "_create_project">>>>)
             ELSE Result(FALSE, env.createOk,
                         <<<<"call", "_create_project">>>> \o t.trace
                            \o <<<<"req", "projectCreate">>,
                                 <<"ret", "_create_project">>>>)

\* the try block spans the lookup and the creation: whatever _create_project
\* raises is caught by `except Exception` and None is returned
get_or_create_project(tm, env) ==
    LET c == create_project(tm, env)
        head == <<<<"call", "get_or_create_project">>, <<"req", "projects">>>>
        tail == <<<<"ret", "get_or_create_project">>>>
    IN  CASE env.lookup = "error" -> Result(FALSE, FALSE, head \o tail)
          [] env.lookup = "found" -> Result(FALSE, TRUE, head \o tail)
          [] OTHER -> Result(FALSE, ~c.raised /\ c.ok, head \o c.trace \o tail)

delete_issue(tm, env) ==
    IF ~tm
    THEN Result(TRUE, FALSE, <<<<"call", "_delete_issue">>,
                               <<"raise", "_delete_issue">>>>)
    ELSE Result(FALSE, env.createOk,
                <<<<"call", "_delete_issue">>, <<"req", "issueDelete">>,
                  <<"ret", "_delete_issue">>>>)

\* update_issue is called by the /update handler and exercised by
\* tests/test_slackbot_linear_integration.py 332-376; its body follows the
\* safety-gate contract: raise before any request with test mode disabled,
\* otherwise one UpdateIssue mutation
update_issue(tm, env) ==
    IF ~tm
    THEN Result(TRUE, FALSE, <<<<"call", "update_issue">>,
                               <<"raise", "update_issue">>>>)
    ELSE Result(FALSE, env.createOk,
                <<<<"call", "update_issue">>, <<"req", "issueUpdate">>,
                  <<"ret", "update_issue">>>>)

\* a title is its text and the number of "[TEST] " markers in front of it
Title(base, marks) == [base |-> base, marks |-> marks]
StartsWithTestMarker(title) == title.marks > 0
AddTestPrefix(title) == [title EXCEPT !.marks = @ + 1]

\* the ticket objects a structured extraction can contain: a bare ticket,
\* and a ticket with assignee, project and milestone whose title already
\* carries the marker
Tickets ==
    { [issue_title |-> Title("T1", 0), assign_team_member |-> FALSE,
       project |-> FALSE, milestone |-> FALSE, numeric |-> TRUE],
      [issue_title |-> Title("T2", 1), assign_team_member |-> TRUE,
       project |-> TRUE, milestone |-> TRUE, numeric |-> TRUE] }
\* the same with a ticket whose priority or time estimate is not a number
LooseTickets ==
    Tickets \cup
    { [issue_title |-> Title("T3", 0), assign_team_member |-> FALSE,
       project |-> FALSE, milestone |-> FALSE, numeric |-> FALSE] }

\* create_issue; failed says whether this issueCreate mutation fails.  The
\* result also carries the title put into the mutation.
create_issue(tm, issue_data, env, failed) ==
    LET title == AddTestPrefix(issue_data.issue_title)
        t == get_team_id(env)
        a == IF issue_data.assign_team_member THEN get_user_id(env).trace ELSE <<>>
        p == get_or_create_project(tm, env)
        ptrace == IF issue_data.project THEN p.trace ELSE <<>>
        project_id == issue_data.project /\ p.ok
        m == get_or_create_milestone(tm, env)
        useM == issue_data.milestone /\ project_id
        mtrace == IF useM THEN m.trace ELSE <<>>
        head == <<<<"call", "create_issue">>>> \o t.trace \o a
    IN  IF ~tm
        THEN [raised |-> TRUE, ok |-> FALSE, title |-> issue_data.issue_title,
              trace |-> <<<<"call", "create_issue">>, <<"raise", "create_issue">>>>]
        ELSE IF ~t.ok
        THEN [raised |-> FALSE, ok |-> FALSE, title |-> title,
              trace |-> head \o <<<<"ret", "create_issue">>>>]
        ELSE IF useM /\ m.raised
        THEN [raised |-> TRUE, ok |-> FALSE, title |-> title,
              trace |-> head \o ptrace \o mtrace \o <<<<"raise", "create_issue">>>>]
        \* int(priority) or int(float(time_estimate)) raises ValueError
        ELSE IF ~issue_data.numeric
        THEN [raised |-> TRUE, ok |-> FALSE, title |-> title,
              trace |-> head \o ptrace \o mtrace \o <<<<"raise", "create_issue">>>>]
        ELSE [raised |-> FALSE, ok |-> ~failed, title |-> title,
              trace |-> head \o ptrace \o mtrace
                          \o <<<<"req", "issueCreate">>, <<"ret", "create_issue">>>>]

\* the requests of a trace, and those that are mutations
Requests(trace) == SelectSeq(trace, LAMBDA e : e[1] = "req")
MutationsSent(trace) ==
    SelectSeq(trace, LAMBDA e : e[1] = "req" /\ e[2] \in Mutations)
\* every call of a write operation in the trace is followed at once by that
\* operation raising the safety error
Gated(trace) ==
    \A i \in 1..Len(trace) :
        (trace[i][1] = "call" /\ trace[i][2] \in WriteOps)
            => (i < Len(trace) /\ trace[i + 1] = <<"raise", trace[i][2]>>)

(***************************************************************************)
(* Responses and handler results                                           *)
(***************************************************************************)
\* a response payload: its response_type, which message it is, and the
\* exception text it quotes ("" when it quotes none)
Resp(response_type, text) ==
    [response_type |-> response_type, text |-> text, exc |-> ""]
ErrResp(text, exc) == [response_type |-> "ephemeral", text |-> text, exc |-> exc]
NoResp == Resp("", "")

\* what a handler leaves behind: the exception it raised ("" for none), its
\* response, the two maps and the button value after it, and what it did
HandlerOut(sel, pend, btn) ==
    [exc |-> "", response |-> NoResp, sel |-> sel, pend |-> pend, btn |-> btn,
     handler |-> "none", branch |-> "none", context |-> "none", ids |-> {},
     answered |-> {},
     question |-> <<>>, analysis |-> EmptyStr, ai_calls |-> 0, trace |-> <<>>,
     tickets |-> 0, creates |-> 0, sent |-> <<>>, created |-> <<>>]

\* the transcripts the store returns: all of them, only t2, or none (the
\* store client turns its own errors into an empty result)
Available(db) ==
    CASE db = "all" -> TranscriptIds [] db = "some" -> {"t2"} [] OTHER -> {}

\* get_workspace_context as called by the context assembler: one read
get_workspace_context ==
    <<<<"call", "get_workspace_context">>, <<"req", "workspace">>,
      <<"ret", "get_workspace_context">>>>

(***************************************************************************)
(* The context assembler (command_handler.py 1465-1517) and the two reads  *)
(* it makes.  A context is the sequence of its blocks.                     *)
(***************************************************************************)
\* what the transcript store query does, what the workspace request does,
\* and whether the snapshot holds something the formatter cannot render
StoreOutcomes == {"rows", "none", "raise"}
FetchOutcomes == {"data", "nodata", "raise"}
FormatOutcomes == {"ok", "raise"}

\* SupabaseService.get_recent_transcripts: its own errors become no rows
get_recent_transcripts(store) ==
    IF store = "rows"
    THEN [rows |-> <<"m1", "m2">>, raised |-> FALSE]
    ELSE [rows |-> <<>>, raised |-> FALSE]

\* LinearService.get_workspace_context: its own errors become an empty
\* snapshot
fetch_workspace_context(fetch) ==
    IF fetch = "data"
    THEN [snapshot |-> "workspace", raised |-> FALSE]
    ELSE [snapshot |-> "empty", raised |-> FALSE]

format_linear_context_comprehensive(linear_context, format) ==
    IF linear_context = "empty" THEN [text |-> "linear_no_data", raised |-> FALSE]
    ELSE IF format = "raise" THEN [text |-> "", raised |-> TRUE]
    ELSE [text |-> "linear_workspace", raised |-> FALSE]

get_comprehensive_context(store, fetch, format, t) ==
    LET transcripts == get_recent_transcripts(store)
        meetings ==
            IF transcripts.raised THEN <<"meetings_unavailable", "">>
            ELSE IF transcripts.rows # <<>>
            THEN <<"recent_meetings">> \o transcripts.rows \o <<"">>
            ELSE <<>>
        linear_context == fetch_workspace_context(fetch)
        linear_formatted ==
            format_linear_context_comprehensive(linear_context.snapshot, format)
        linear ==
            IF linear_context.raised \/ linear_formatted.raised
            THEN <<"linear_unavailable", "">>
            ELSE <<linear_formatted.text>>
    \* the last line is "Last updated:" with datetime.now() to the minute
    IN  [parts |-> meetings \o linear \o <<"last_updated">>, stamp |-> t,
         raised |-> FALSE]

(***************************************************************************)
(* /chat (command_handler.py 318-391, 623-714, 826-933).  A text is the    *)
(* sequence of its words after strip().                                    *)
(***************************************************************************)
PickerWords == {"select", "choose", "pick", "transcripts"}
ChatTexts == {<<>>, <<"select">>, <<"with", "q1">>, <<"with">>, <<"q1">>}

handle_chat_with_selected_transcripts(out, transcript_ids, user_question, inp) ==
    LET selected_transcripts == transcript_ids \cap Available(inp.db)
        base0 == [out EXCEPT !.ids = transcript_ids, !.context = "selected"]
        base == [base0 EXCEPT !.trace = get_workspace_context]
    IN  IF selected_transcripts = {}
        THEN [base0 EXCEPT !.response = Resp("ephemeral", "could_not_retrieve")]
        ELSE IF ~inp.promptOk
        THEN [base EXCEPT !.response =
                 ErrResp("error_selected_transcripts", "KeyError")]
        ELSE IF ~inp.aiOk
        THEN [base EXCEPT !.response =
                 ErrResp("error_selected_transcripts", "AIError"),
                 !.ai_calls = 1, !.question = user_question,
                 !.answered = selected_transcripts]
        ELSE [base EXCEPT !.response = Resp("ephemeral", "ai_response_selected"),
                 !.ai_calls = 1, !.question = user_question,
                 !.answered = selected_transcripts]

show_transcript_selector_for_chat(out, inp) ==
    IF Available(inp.db) = {}
    THEN [out EXCEPT !.response = Resp("ephemeral", "no_transcripts")]
    ELSE [out EXCEPT !.response = Resp("ephemeral", "selector")]

handle_chat_with_selector_inline(out, question, inp) ==
    IF Available(inp.db) = {}
    THEN [out EXCEPT !.response = Resp("ephemeral", "no_transcripts")]
    ELSE [out EXCEPT !.response = Resp("ephemeral", "selector_inline"),
                     !.question = question]

\* a chat handler that leaves the selection it used in the map
handle_chat_command_keeping(out0, user_id, text, t, inp) ==
    LET out == [out0 EXCEPT !.handler = "chat"]
        r == get_user_selection(out.sel, user_id, t)
        read == [out EXCEPT !.sel = r.sel, !.trace = get_workspace_context]
    IN  IF Len(text) = 1 /\ text[1] \in PickerWords
        THEN show_transcript_selector_for_chat(out, inp)
        ELSE IF Len(text) > 1 /\ text[1] = "with"
        THEN handle_chat_with_selector_inline(out, Tail(text), inp)
        ELSE IF text = <<>>
        THEN [out EXCEPT !.response = Resp("ephemeral", "please_provide")]
        ELSE IF r.some /\ r.ids # {}
        THEN handle_chat_with_selected_transcripts(
                 [out EXCEPT !.sel = r.sel], r.ids, text, inp)
        ELSE IF ~inp.promptOk
        THEN [read EXCEPT !.context = "default", !.exc = "KeyError"]
        ELSE IF ~inp.aiOk
        THEN [read EXCEPT !.context = "default", !.ai_calls = 1,
                          !.question = text,
                          !.response = ErrResp("error_generating", "AIError")]
        ELSE [read EXCEPT !.context = "default", !.ai_calls = 1,
                          !.question = text,
                          !.response = Resp("ephemeral", "ai_response")]

handle_chat_command(out0, user_id, text, t, inp) ==
    LET out == [out0 EXCEPT !.handler = "chat"]
        r == get_user_selection(out.sel, user_id, t)
        read == [out EXCEPT !.sel = r.sel, !.trace = get_workspace_context]
    IN  IF Len(text) = 1 /\ text[1] \in PickerWords
        THEN show_transcript_selector_for_chat(out, inp)
        ELSE IF Len(text) > 1 /\ text[1] = "with"
        THEN handle_chat_with_selector_inline(out, Tail(text), inp)
        ELSE IF text = <<>>
        THEN [out EXCEPT !.response = Resp("ephemeral", "please_provide")]
        ELSE IF r.some /\ r.ids # {}
        THEN handle_chat_with_selected_transcripts(
                 [out EXCEPT !.sel = clear_user_selection(r.sel, user_id)],
                 r.ids, text, inp)
        ELSE IF ~inp.promptOk
        THEN [read EXCEPT !.context = "default", !.exc = "KeyError"]
        ELSE IF ~inp.aiOk
        THEN [read EXCEPT !.context = "default", !.ai_calls = 1,
                          !.question = text,
                          !.response = ErrResp("error_generating", "AIError")]
        ELSE [read EXCEPT !.context = "default", !.ai_calls = 1,
                          !.question = text,
                          !.response = Resp("ephemeral", "ai_response")]

(***************************************************************************)
(* /summarize (935-952, 1362-1463)                                         *)
(***************************************************************************)
SummarizeTexts == {<<>>, <<"last">>, <<"LAST", "client">>, <<"client", "acme">>,
                   <<"Client", "acme">>, <<"client">>, <<"status">>}
RecentWords == {"last", "recent", "latest"}
\* str.lower() on the words that occur
Lower(w) == CASE w = "LAST" -> "last" [] w = "Client" -> "client" [] OTHER -> w
\* "client" in text.lower(): some word of the text contains it
ContainsClient(text) ==
    \E i \in 1..Len(text) : Lower(text[i]) \in {"client", "clients"}
\* text.replace("client", "").strip() is empty
ClientNameEmpty(text) == \A i \in 1..Len(text) : text[i] = "client"

handle_meeting_summary(out, inp) ==
    LET base == [out EXCEPT !.branch = "meeting_summary"]
    IN  IF Available(inp.db) = {}
        THEN [base EXCEPT !.response = Resp("ephemeral", "no_recent_meetings")]
        ELSE IF ~inp.promptOk
        THEN [base EXCEPT !.response = ErrResp("error_meeting_summary", "KeyError")]
        ELSE IF ~inp.aiOk
        THEN [base EXCEPT !.ai_calls = 1,
                 !.response = ErrResp("error_meeting_summary", "AIError")]
        ELSE [base EXCEPT !.ai_calls = 1,
                 !.response = Resp("ephemeral", "meeting_summary")]

handle_client_summary(out, text, inp) ==
    LET base == [out EXCEPT !.branch = "client_summary"]
        ctx == [base EXCEPT !.context = "default", !.trace = get_workspace_context]
    IN  IF ClientNameEmpty(text)
        THEN [base EXCEPT !.response = Resp("ephemeral", "please_specify_client")]
        ELSE IF ~inp.promptOk
        THEN [ctx EXCEPT !.response = ErrResp("error_client_summary", "KeyError")]
        ELSE IF ~inp.aiOk
        THEN [ctx EXCEPT !.ai_calls = 1,
                 !.response = ErrResp("error_client_summary", "AIError")]
        ELSE [ctx EXCEPT !.ai_calls = 1,
                 !.response = Resp("ephemeral", "client_status")]

\* a summarize handler that looks for "client" before the first word
handle_summarize_command_client_first(out0, text, inp) ==
    LET out == [out0 EXCEPT !.handler = "summarize"]
    IN  IF text = <<>> THEN handle_meeting_summary(out, inp)
        ELSE IF ContainsClient(text) THEN handle_client_summary(out, text, inp)
        ELSE handle_meeting_summary(out, inp)

handle_summarize_command(out0, text, inp) ==
    LET out == [out0 EXCEPT !.handler = "summarize"]
    IN  IF text = <<>> THEN handle_meeting_summary(out, inp)
        ELSE IF Lower(text[1]) \in RecentWords THEN handle_meeting_summary(out, inp)
        ELSE IF ContainsClient(text) THEN handle_client_summary(out, text, inp)
        ELSE handle_meeting_summary(out, inp)

(***************************************************************************)
(* /teammember (1291-1330) and /weekly-summary (1332-1360)                 *)
(***************************************************************************)
OtherTexts == {<<>>, <<"alice">>}

handle_teammember_command(out0, text, inp) ==
    LET out == [out0 EXCEPT !.handler = "teammember"]
        ctx == [out EXCEPT !.context = "default", !.trace = get_workspace_context]
    IN  IF text = <<>>
        THEN [out EXCEPT !.response = Resp("ephemeral", "please_specify_member")]
        ELSE IF ~inp.promptOk THEN [ctx EXCEPT !.exc = "KeyError"]
        ELSE IF ~inp.aiOk
        THEN [ctx EXCEPT !.ai_calls = 1,
                 !.response = ErrResp("error_teammember", "AIError")]
        ELSE [ctx EXCEPT !.ai_calls = 1,
                 !.response = Resp("ephemeral", "teammember_info")]

handle_weekly_summary_command(out0, inp) ==
    LET out == [out0 EXCEPT !.handler = "weekly-summary", !.context = "default",
                            !.trace = get_workspace_context]
    IN  IF ~inp.promptOk THEN [out EXCEPT !.exc = "KeyError"]
        ELSE IF ~inp.aiOk
        THEN [out EXCEPT !.ai_calls = 1,
                 !.response = ErrResp("error_weekly_summary", "AIError")]
        ELSE [out EXCEPT !.ai_calls = 1,
                 !.response = Resp("in_channel", "weekly_summary")]

(***************************************************************************)
(* /update (1213-1289).  inp.ai is what the AI call produced: "fail" (it   *)
(* raised), "invalid_json", "no_ticket" (JSON without ticket id or         *)
(* updates) or "update" (JSON naming a ticket and its updates).            *)
(***************************************************************************)
UpdateAiOutcomes == {"fail", "invalid_json", "no_ticket", "update"}

\* an update handler without the test-mode branch
handle_update_ticket_command_always(out0, text, tm, inp) ==
    LET out == [out0 EXCEPT !.handler = "update"]
        ctx == [out EXCEPT !.context = "default", !.trace = get_workspace_context]
        ai == [ctx EXCEPT !.ai_calls = 1]
        u == update_issue(tm, inp.env)
        upd == [ai EXCEPT !.trace = @ \o u.trace]
    IN  IF text = <<>>
        THEN [out EXCEPT !.response = Resp("ephemeral", "please_describe_update")]
        ELSE IF ~inp.promptOk THEN [ctx EXCEPT !.exc = "KeyError"]
        ELSE IF inp.ai = "fail"
        THEN [ai EXCEPT !.response = ErrResp("error_update", "AIError")]
        ELSE IF inp.ai = "invalid_json"
        THEN [ai EXCEPT !.response = Resp("ephemeral", "invalid_format")]
        ELSE IF inp.ai = "no_ticket"
        THEN [ai EXCEPT !.response = Resp("ephemeral", "unable_to_parse")]
        ELSE IF u.raised
        THEN [upd EXCEPT !.response = ErrResp("error_update", "SafetyError")]
        ELSE IF u.ok
        THEN [upd EXCEPT !.response = Resp("in_channel", "ticket_updated")]
        ELSE [upd EXCEPT !.response = Resp("ephemeral", "failed_update")]

handle_update_ticket_command(out0, text, tm, inp) ==
    LET out == [out0 EXCEPT !.handler = "update"]
        ctx == [out EXCEPT !.context = "default", !.trace = get_workspace_context]
        ai == [ctx EXCEPT !.ai_calls = 1]
        u == update_issue(tm, inp.env)
        upd == [ai EXCEPT !.trace = @ \o u.trace]
    IN  IF text = <<>>
        THEN [out EXCEPT !.response = Resp("ephemeral", "please_describe_update")]
        ELSE IF ~inp.promptOk THEN [ctx EXCEPT !.exc = "KeyError"]
        ELSE IF inp.ai = "fail"
        THEN [ai EXCEPT !.response = ErrResp("error_update", "AIError")]
        ELSE IF ~tm
        THEN [ai EXCEPT !.response = Resp("ephemeral", "update_analysis")]
        ELSE IF inp.ai = "invalid_json"
        THEN [ai EXCEPT !.response = Resp("ephemeral", "invalid_format")]
        ELSE IF inp.ai = "no_ticket"
        THEN [ai EXCEPT !.response = Resp("ephemeral", "unable_to_parse")]
        ELSE IF u.raised
        THEN [upd EXCEPT !.response = ErrResp("error_update", "SafetyError")]
        ELSE IF u.ok
        THEN [upd EXCEPT !.response = Resp("in_channel", "ticket_updated")]
        ELSE [upd EXCEPT !.response = Resp("ephemeral", "failed_update")]

(***************************************************************************)
(* Pending ticket confirmations (1091-1108)                                *)
(***************************************************************************)
NoPending == [present |-> FALSE, context |-> "", original_request |-> <<>>,
              analysis |-> EmptyStr, timestamp |-> 0, user_id |-> ""]

Pending(context, original_request, analysis, t, user_id) ==
    [present |-> TRUE, context |-> context, original_request |-> original_request,
     analysis |-> analysis, timestamp |-> t, user_id |-> user_id]

get_pending_tickets(pend, user_id, t) ==
    IF ~pend[user_id].present
    THEN [some |-> FALSE, data |-> NoPending, pend |-> pend]
    ELSE IF t - pend[user_id].timestamp > PENDING_TICKET_TIMEOUT_MINUTES
         THEN [some |-> FALSE, data |-> NoPending,
               pend |-> [pend EXCEPT ![user_id] = NoPending]]
         ELSE [some |-> TRUE, data |-> pend[user_id], pend |-> pend]

\* a clear that empties the whole map
clear_pending_tickets_all(pend, user_id) ==
    [u \in DOMAIN pend |-> NoPending]

clear_pending_tickets(pend, user_id) ==
    IF pend[user_id].present THEN [pend EXCEPT ![user_id] = NoPending] ELSE pend

(***************************************************************************)
(* /create and /create-ticket (954-1089).  inp.analysis is ai_response[0]; *)
(* inp.aiOk = FALSE is an AI call that raised.                             *)
(***************************************************************************)
CreateTexts == {<<>>, <<"r1">>}
\* an analysis that fits the budget of the compact payload and one that is
\* one character too long
ShortAnalysis == Str("a1", CompactAnalysisBudget)
LongAnalysis == Str("a2", CompactAnalysisBudget + 1)
Analyses == {ShortAnalysis, LongAnalysis}

NoButton == [present |-> FALSE, user_id |-> "", original_request |-> <<>>,
             analysis |-> EmptyStr, issued_at |-> 0, answered |-> FALSE]

\* the compact payload serialised into the value of both buttons
\* a compact payload that cuts the analysis one character early
compact_payload_short(user_id, text, analysis) ==
    [user_id |-> user_id, original_request |-> text,
     analysis |-> TruncateWithDots(analysis, CompactAnalysisBudget - 1)]

compact_payload(user_id, text, analysis) ==
    [user_id |-> user_id, original_request |-> text,
     analysis |-> TruncateWithDots(analysis, CompactAnalysisBudget)]

\* the record of the buttons shown to a user as the state keeps it: the
\* compact payload, when the prompt was produced and whether a yes/no action
\* of that user was processed since
ShownButton(payload, t) ==
    [present |-> TRUE, user_id |-> payload.user_id,
     original_request |-> payload.original_request,
     analysis |-> payload.analysis, issued_at |-> t, answered |-> FALSE]

\* a create handler that writes the issue at once instead of asking
handle_create_ticket_command_eager(out0, user_id, text, t, inp) ==
    LET out == [out0 EXCEPT !.handler = "create"]
        ctx == [out EXCEPT !.context = "default", !.trace = get_workspace_context]
    IN  IF text = <<>>
        THEN [out EXCEPT !.response = Resp("ephemeral", "please_describe_create")]
        ELSE IF ~inp.promptOk THEN [ctx EXCEPT !.exc = "KeyError"]
        ELSE IF ~inp.aiOk
        THEN [ctx EXCEPT !.ai_calls = 1,
                 !.response = ErrResp("error_ticket_creation", "AIError")]
        ELSE [ctx EXCEPT !.ai_calls = 1,
                 !.trace = @ \o <<<<"call", "create_issue">>, <<"req", "issueCreate">>,
                                  <<"ret", "create_issue">>>>,
                 !.response = Resp("in_channel", "tickets_created")]

handle_create_ticket_command(out0, user_id, text, t, inp) ==
    LET out == [out0 EXCEPT !.handler = "create"]
        ctx == [out EXCEPT !.context = "default", !.trace = get_workspace_context]
        ticket_data == Pending("full", text, inp.analysis, t, user_id)
    IN  IF text = <<>>
        THEN [out EXCEPT !.response = Resp("ephemeral", "please_describe_create")]
        ELSE IF ~inp.promptOk THEN [ctx EXCEPT !.exc = "KeyError"]
        ELSE IF ~inp.aiOk
        THEN [ctx EXCEPT !.ai_calls = 1,
                 !.response = ErrResp("error_ticket_creation", "AIError")]
        ELSE [ctx EXCEPT !.ai_calls = 1,
                 !.pend = [ctx.pend EXCEPT ![user_id] = ticket_data],
                 !.btn = [ctx.btn EXCEPT ![user_id] =
                     ShownButton(compact_payload(user_id, text, inp.analysis), t)],
                 !.response = Resp("ephemeral", "confirm_prompt")]

(***************************************************************************)
(* Confirmation (1110-1211).  inp.extraction is what the structured AI     *)
(* call produced: "fail" (it raised), "invalid_json", or "tickets" with    *)
(* inp.tickets the parsed list of ticket objects.                          *)
(***************************************************************************)
TicketLists == UNION { [1..n -> Tickets] : n \in 0..MaxTickets }

\* a loop that gives up at the first ticket the tracker does not create
RECURSIVE create_tickets_loop_stopping(_, _, _, _, _)
create_tickets_loop_stopping(tm, tickets_json, env, i, acc) ==
    IF i > Len(tickets_json) THEN acc
    ELSE
      LET item == tickets_json[i]
          mapped_issue ==
              IF tm /\ ~StartsWithTestMarker(item.issue_title)
              THEN [item EXCEPT !.issue_title = AddTestPrefix(@)]
              ELSE item
          r == create_issue(tm, mapped_issue, env, env.failAt = i)
          wrote == \E k \in 1..Len(r.trace) : r.trace[k] = <<"req", "issueCreate">>
          acc1 == [acc EXCEPT !.creates = @ + 1, !.trace = @ \o r.trace,
                              !.sent = IF wrote THEN Append(@, r.title) ELSE @]
      IN  IF r.raised
          THEN [acc1 EXCEPT !.exc = IF tm THEN "ValueError" ELSE "SafetyError"]
          ELSE IF ~r.ok THEN acc1
          ELSE create_tickets_loop_stopping(tm, tickets_json, env, i + 1,
                   [acc1 EXCEPT !.created = Append(@, r.title)])

\* the loop over tickets_json (1160-1187), from index i on; acc collects the
\* number of create_issue calls, the titles put into issueCreate mutations,
\* the titles of the issues created and the tracker trace
RECURSIVE create_tickets_loop(_, _, _, _, _)
create_tickets_loop(tm, tickets_json, env, i, acc) ==
    IF i > Len(tickets_json) THEN acc
    ELSE
      LET item == tickets_json[i]
          mapped_issue ==
              IF tm /\ ~StartsWithTestMarker(item.issue_title)
              THEN [item EXCEPT !.issue_title = AddTestPrefix(@)]
              ELSE item
          r == create_issue(tm, mapped_issue, env, env.failAt = i)
          wrote == \E k \in 1..Len(r.trace) : r.trace[k] = <<"req", "issueCreate">>
          acc1 == [acc EXCEPT !.creates = @ + 1, !.trace = @ \o r.trace,
                              !.sent = IF wrote THEN Append(@, r.title) ELSE @]
      IN  IF r.raised
          THEN [acc1 EXCEPT !.exc = IF tm THEN "ValueError" ELSE "SafetyError"]
          ELSE create_tickets_loop(tm, tickets_json, env, i + 1,
                   IF r.ok THEN [acc1 EXCEPT !.created = Append(@, r.title)]
                   ELSE acc1)

\* a confirmation that clears the pending entry only once the user agreed
handle_create_tickets_confirmation_late_clear(out0, user_id, confirmed, t, tm, inp) ==
    LET g == get_pending_tickets(out0.pend, user_id, t)
        missing == [out0 EXCEPT !.handler = "confirmation", !.pend = g.pend]
        out == [missing EXCEPT !.pend = clear_pending_tickets(g.pend, user_id)]
        \* the structured prompt is built from the record that was read
        ai == [out EXCEPT !.ai_calls = 1, !.question = g.data.original_request,
                          !.analysis = g.data.analysis]
        parsed == [ai EXCEPT !.tickets = Len(inp.tickets)]
        loop == create_tickets_loop(tm, inp.tickets, inp.env, 1, parsed)
    IN  IF ~g.some
        THEN [missing EXCEPT !.response = Resp("ephemeral", "no_pending")]
        ELSE IF ~confirmed
        THEN [missing EXCEPT !.response = Resp("ephemeral", "cancelled")]
        ELSE IF ~inp.promptOk
        THEN [out EXCEPT !.response = ErrResp("error_creating_tickets", "KeyError")]
        ELSE IF inp.extraction = "fail"
        THEN [ai EXCEPT !.response = ErrResp("error_creating_tickets", "AIError")]
        ELSE IF inp.extraction = "invalid_json"
        THEN [ai EXCEPT !.response = ErrResp("failed_to_parse", "JSONDecodeError")]
        ELSE IF loop.exc # ""
        THEN [loop EXCEPT !.exc = "",
                 !.response = ErrResp("error_creating_tickets", loop.exc)]
        ELSE IF loop.created # <<>>
        THEN [loop EXCEPT !.response = Resp("in_channel", "tickets_created")]
        ELSE [loop EXCEPT !.response = Resp("ephemeral", "failed_to_create")]

handle_create_tickets_confirmation(out0, user_id, confirmed, t, tm, inp) ==
    LET g == get_pending_tickets(out0.pend, user_id, t)
        missing == [out0 EXCEPT !.handler = "confirmation", !.pend = g.pend]
        out == [missing EXCEPT !.pend = clear_pending_tickets(g.pend, user_id)]
        \* the structured prompt is built from the record that was read
        ai == [out EXCEPT !.ai_calls = 1, !.question = g.data.original_request,
                          !.analysis = g.data.analysis]
        parsed == [ai EXCEPT !.tickets = Len(inp.tickets)]
        loop == create_tickets_loop(tm, inp.tickets, inp.env, 1, parsed)
    IN  IF ~g.some
        THEN [missing EXCEPT !.response = Resp("ephemeral", "no_pending")]
        ELSE IF ~confirmed
        THEN [out EXCEPT !.response = Resp("ephemeral", "cancelled")]
        ELSE IF ~inp.promptOk
        THEN [out EXCEPT !.response = ErrResp("error_creating_tickets", "KeyError")]
        ELSE IF inp.extraction = "fail"
        THEN [ai EXCEPT !.response = ErrResp("error_creating_tickets", "AIError")]
        ELSE IF inp.extraction = "invalid_json"
        THEN [ai EXCEPT !.response = ErrResp("failed_to_parse", "JSONDecodeError")]
        ELSE IF loop.exc # ""
        THEN [loop EXCEPT !.exc = "",
                 !.response = ErrResp("error_creating_tickets", loop.exc)]
        ELSE IF loop.created # <<>>
        THEN [loop EXCEPT !.response = Resp("in_channel", "tickets_created")]
        ELSE [loop EXCEPT !.response = Resp("ephemeral", "failed_to_create")]

(***************************************************************************)
(* Dispatcher and delivery (232-280, 1528-1551)                            *)
(***************************************************************************)
Commands == {"/chat", "/summarize", "/create", "/create-ticket", "/update",
             "/teammember", "/weekly-summary", "/nonexistent", "/CHAT"}

\* the post outcomes: status 200, another status, a timeout, another error
FirstPost == {"200", "non200", "timeout", "error"}
FallbackPost == {"ok", "error"}

Post(kind, response) ==
    [kind |-> kind, response_type |-> response.response_type,
     text |-> response.text, exc |-> response.exc]

\* a _send_response without the final `except Exception`
send_response_uncaught(response, first, fallback) ==
    IF first = "timeout"
    THEN [posts |-> <<Post("primary", response),
                      Post("fallback", Resp("ephemeral", "still_processing"))>>,
          raised |-> FALSE]
    ELSE [posts |-> <<Post("primary", response)>>, raised |-> first = "error"]

\* _send_response: the posts it makes and whether an exception leaves it
send_response(response, first, fallback) ==
    IF first = "timeout"
    THEN [posts |-> <<Post("primary", response),
                      Post("fallback", Resp("ephemeral", "still_processing"))>>,
          raised |-> FALSE]
    ELSE [posts |-> <<Post("primary", response)>>, raised |-> FALSE]

\* a chain that compares the lower-cased command name
Route_caseless(command) ==
    CASE command \in {"/chat", "/CHAT"} -> "chat"
      [] command = "/summarize" -> "summarize"
      [] command = "/create-ticket" \/ command = "/create" -> "create"
      [] command = "/update" -> "update"
      [] command = "/teammember" -> "teammember"
      [] command = "/weekly-summary" -> "weekly-summary"
      [] OTHER -> "unknown"

\* the if/elif chain of handle_command: which handler a command name selects
Route(command) ==
    CASE command = "/chat" -> "chat"
      [] command = "/summarize" -> "summarize"
      [] command = "/create-ticket" \/ command = "/create" -> "create"
      [] command = "/update" -> "update"
      [] command = "/teammember" -> "teammember"
      [] command = "/weekly-summary" -> "weekly-summary"
      [] OTHER -> "unknown"

\* the handler call of handle_command
run_handler(out, command, user_id, text, t, tm, inp) ==
    LET h == Route(command)
    IN  CASE h = "chat" -> handle_chat_command(out, user_id, text, t, inp)
          [] h = "summarize" -> handle_summarize_command(out, text, inp)
          [] h = "create" -> handle_create_ticket_command(out, user_id, text, t, inp)
          [] h = "update" -> handle_update_ticket_command(out, text, tm, inp)
          [] h = "teammember" -> handle_teammember_command(out, text, inp)
          [] h = "weekly-summary" -> handle_weekly_summary_command(out, inp)
          [] OTHER -> [out EXCEPT !.response = Resp("ephemeral", "unknown_command")]

\* a dispatcher that sends the response again when the first post failed
deliver_retrying(out, first, fallback) ==
    LET ok == send_response(out.response, first, fallback)
        err == send_response(ErrResp("error_processing", out.exc), first, fallback)
    IN  IF out.exc # ""
        THEN [posts |-> err.posts, escaped |-> err.raised]
        ELSE IF first \in {"non200", "error"}
        THEN [posts |-> ok.posts \o ok.posts, escaped |-> FALSE]
        ELSE [posts |-> ok.posts, escaped |-> FALSE]

\* handle_command after the handler returned or raised: the posts made and
\* whether an exception escapes to the caller
deliver(out, first, fallback) ==
    LET ok == send_response(out.response, first, fallback)
        err == send_response(ErrResp("error_processing", out.exc), first, fallback)
        err2 == send_response(ErrResp("error_processing", "RequestException"),
                              first, fallback)
    IN  IF out.exc # ""
        THEN [posts |-> err.posts, escaped |-> err.raised]
        ELSE IF ok.raised
        THEN [posts |-> ok.posts \o err2.posts, escaped |-> err2.raised]
        ELSE [posts |-> ok.posts, escaped |-> FALSE]

(***************************************************************************)
(* The state machine                                                       *)
(***************************************************************************)
\* the inputs of one handler run that the handler does not choose: what the
\* transcript store, the prompt formatting, the AI and the tracker do
DefaultEnv == [team |-> TRUE, lookup |-> "found", createOk |-> TRUE, failAt |-> 0]
DefaultInp ==
    [db |-> "all", promptOk |-> TRUE, aiOk |-> TRUE, ai |-> "update",
     analysis |-> EmptyStr, extraction |-> "tickets", tickets |-> <<>>,
     env |-> DefaultEnv]

\* the pair (promptOk, aiOk): formatting fails, the AI call fails, or both work
AiCases == {<<FALSE, TRUE>>, <<TRUE, FALSE>>, <<TRUE, TRUE>>}

InputsFor(command, analyses) ==
    CASE command \in {"/chat", "/summarize"} ->
           { [DefaultInp EXCEPT !.db = d, !.promptOk = c[1], !.aiOk = c[2]] :
               d \in {"all", "some", "none"}, c \in AiCases }
      [] command \in {"/create", "/create-ticket"} ->
           { [DefaultInp EXCEPT !.promptOk = c[1], !.aiOk = c[2], !.analysis = a] :
               c \in AiCases, a \in analyses }
      [] command = "/update" ->
           { [DefaultInp EXCEPT !.promptOk = p, !.ai = a, !.env.createOk = k] :
               p \in BOOLEAN, a \in UpdateAiOutcomes, k \in BOOLEAN }
      [] OTHER ->
           { [DefaultInp EXCEPT !.promptOk = c[1], !.aiOk = c[2]] : c \in AiCases }

TextsFor(command) ==
    CASE command = "/chat" -> ChatTexts
      [] command = "/summarize" -> SummarizeTexts
      [] command \in {"/create", "/create-ticket"} -> CreateTexts
      [] OTHER -> OtherTexts

\* what `last` keeps of a handler result: everything but the maps; of the
\* tracker trace whether a request and whether a mutation was sent and
\* whether every write operation was stopped by the safety check; of the
\* titles sent and
\* created their numbers and the numbers of markers they carry
Obs(out) ==
    [f \in (DOMAIN out \ {"sel", "pend", "btn", "trace"})
            \cup {"requested", "mutated", "gated", "marks", "updates"} |->
        CASE f = "requested" -> Requests(out.trace) # <<>>
          [] f = "updates" ->
               Len(SelectSeq(out.trace, LAMBDA e : e = <<"call", "update_issue">>))
          [] f = "mutated" -> MutationsSent(out.trace) # <<>>
          [] f = "gated" -> Gated(out.trace)
          [] f = "sent" -> Len(out.sent)
          [] f = "created" -> Len(out.created)
          [] f = "marks" -> { out.sent[i].marks : i \in 1..Len(out.sent) }
          [] OTHER -> out[f]]

(***************************************************************************)
(* The projects section of format_linear_context_comprehensive             *)
(* (command_handler.py 42-112).  A snapshot is the projects, the started   *)
(* ones among them, the milestones and the issues; a rendering is the set  *)
(* of project entries written, each with the milestones and the issues     *)
(* listed under it.                                                        *)
(***************************************************************************)
ProjectIds == {"P1", "P2"}
MilestonePool == {[id |-> "M1", project_id |-> "P1"], [id |-> "M2", project_id |-> "P2"]}
IssuePool == {[id |-> "I1", project_id |-> "P1", state_type |-> "started"],
              [id |-> "I2", project_id |-> "P1", state_type |-> "completed"],
              [id |-> "I3", project_id |-> "P2", state_type |-> "unstarted"]}
Snapshots ==
    { c \in [projects : SUBSET ProjectIds, started : SUBSET ProjectIds,
             milestones : SUBSET MilestonePool, issues : SUBSET IssuePool] :
        /\ c.started \subseteq c.projects
        /\ \A x \in c.milestones \cup c.issues : x.project_id \in c.projects }
NoSnapshot == [projects |-> {}, started |-> {}, milestones |-> {}, issues |-> {}]

\* only the projects whose state is 'started' are written; under each, its
\* milestones and its issues that are not completed; completed issues are
\* counted in the summary line and listed nowhere
format_projects_section(linear_context) ==
    IF linear_context.projects = {} /\ linear_context.issues = {} THEN {}
    ELSE { [project |-> p,
            milestones |-> {x.id : x \in {y \in linear_context.milestones :
                                              y.project_id = p}},
            active |-> {x.id : x \in {y \in linear_context.issues :
                                          y.project_id = p /\ y.state_type # "completed"}},
            completed |-> {}] : p \in linear_context.started }

NoObs ==
    [op |-> "init", user |-> "", command |-> "", text |-> <<>>,
     value |-> NoButton, h |-> Obs(HandlerOut(<<>>, <<>>, <<>>)),
     posts |-> <<>>, first |-> "", escaped |-> FALSE, trace |-> <<>>,
     pre_sel |-> "absent", pre_pend |-> "absent", ai |-> "", fallback |-> "",
     ctx |-> [store |-> "", fetch |-> "", format |-> "", parts |-> <<>>,
              stamp |-> 0, raised |-> FALSE],
     render |-> [snapshot |-> NoSnapshot, projects |-> {}],
     req |-> [endpoint |-> "", secret |-> FALSE, signature |-> "",
              timestamp |-> "", age |-> 0, body |-> "", status |-> 0,
              scheduled |-> "none"]]

\* how a user's entries stand at a time: absent, expired or valid
SelectionStatus(sel, user_id, t) ==
    IF ~sel[user_id].present THEN "absent"
    ELSE IF t - sel[user_id].timestamp > SELECTION_TIMEOUT_MINUTES THEN "expired"
    ELSE "valid"
PendingStatus(pend, user_id, t) ==
    IF ~pend[user_id].present THEN "absent"
    ELSE IF t - pend[user_id].timestamp > PENDING_TICKET_TIMEOUT_MINUTES THEN "expired"
    ELSE "valid"
\* the observation of an action of a user, before the handler ran
Before(op, user_id, command) ==
    [NoObs EXCEPT !.op = op, !.user = user_id, !.command = command,
        !.pre_sel = SelectionStatus(USER_TRANSCRIPT_SELECTIONS, user_id, now),
        !.pre_pend = PendingStatus(USER_PENDING_TICKETS, user_id, now)]

Init ==
    /\ LINEAR_TEST_MODE \in BOOLEAN
    /\ now = 0
    /\ USER_TRANSCRIPT_SELECTIONS = [u \in Users |-> NoSelection]
    /\ USER_PENDING_TICKETS = [u \in Users |-> NoPending]
    /\ button = [u \in Users |-> NoButton]
    /\ inflight = <<>>
    /\ last = NoObs

\* time passes; the context assembled last stays on record
Tick ==
    /\ \E d \in TickSteps : now + d <= MaxTime /\ now' = now + d
    /\ last' = [NoObs EXCEPT !.op = "tick", !.ctx = last.ctx]
    /\ UNCHANGED <<inflight, LINEAR_TEST_MODE, USER_TRANSCRIPT_SELECTIONS,
                   USER_PENDING_TICKETS, button>>

\* handle_command(payload) run to completion as a background task
\* a dispatcher that posts nothing when the handler raised
HandleCommand_silent(user_id, command, text, inp, first, fallback) ==
    \E out \in {run_handler(
                    HandlerOut(USER_TRANSCRIPT_SELECTIONS, USER_PENDING_TICKETS, button),
                    command, user_id, text, now, LINEAR_TEST_MODE, inp)} :
      \E d \in {deliver(out, first, fallback)} :
        /\ USER_TRANSCRIPT_SELECTIONS' = out.sel
        /\ USER_PENDING_TICKETS' = out.pend
        /\ button' = out.btn
        /\ last' = [Before("command", user_id, command) EXCEPT
                        !.text = text, !.h = Obs(out), !.first = first,
                        !.fallback = IF first = "timeout" THEN fallback ELSE "",
                        !.ai = IF command = "/update" THEN inp.ai ELSE "",
                        !.posts = IF out.exc # "" THEN <<>> ELSE d.posts,
                        !.escaped = d.escaped]
        /\ UNCHANGED <<inflight, LINEAR_TEST_MODE, now>>

HandleCommand(user_id, command, text, inp, first, fallback) ==
    \E out \in {run_handler(
                    HandlerOut(USER_TRANSCRIPT_SELECTIONS, USER_PENDING_TICKETS, button),
                    command, user_id, text, now, LINEAR_TEST_MODE, inp)} :
      \E d \in {deliver(out, first, fallback)} :
        /\ USER_TRANSCRIPT_SELECTIONS' = out.sel
        /\ USER_PENDING_TICKETS' = out.pend
        /\ button' = out.btn
        /\ last' = [Before("command", user_id, command) EXCEPT
                        !.text = text, !.h = Obs(out), !.first = first,
                        !.fallback = IF first = "timeout" THEN fallback ELSE "",
                        !.ai = IF command = "/update" THEN inp.ai ELSE "",
                        !.posts = d.posts, !.escaped = d.escaped]
        /\ UNCHANGED <<inflight, LINEAR_TEST_MODE, now>>

\* a slash command arrives: a user of users, a command name of cmds, any
\* text, any behaviour of the collaborators (with an AI analysis of
\* analyses), a first post outcome of firsts
Command(users, cmds, firsts, analyses) ==
    \E user_id \in users, command \in cmds :
      \E text \in TextsFor(command), inp \in InputsFor(command, analyses),
         first \in firsts, fallback \in FallbackPost :
        /\ (first # "timeout" => fallback = "ok")
        /\ HandleCommand(user_id, command, text, inp, first, fallback)

(***************************************************************************)
(* Interactive actions (event_handler.py 217-714)                          *)
(***************************************************************************)
SelectionActionIds == {"transcript_selection", "chat_with_transcript_selection",
                       "chat_inline_transcript_selection",
                       "chat_select_transcript_selection"}

\* a multi-select action: the chosen ids are stored under the acting user
SelectTranscripts ==
    \E user_id \in Users, action_id \in SelectionActionIds,
       transcript_ids \in SelectableIdSets :
      /\ USER_TRANSCRIPT_SELECTIONS' =
            store_user_selection(USER_TRANSCRIPT_SELECTIONS, user_id,
                                 transcript_ids, now)
      /\ last' = [Before("select", user_id, action_id) EXCEPT
                      !.h = [@ EXCEPT !.ids = transcript_ids]]
      /\ UNCHANGED <<inflight, LINEAR_TEST_MODE, now, USER_PENDING_TICKETS, button>>

\* the confirmation buttons of the pickers (275-301, 553-578): the selection
\* is read and the answer says whether one was found
PickerConfirmIds == {"use_selected_transcripts", "set_transcript_selection"}

\* a confirmation that clears the selection it read
use_selected_transcripts_consuming(sel, user_id, t) ==
    LET r == get_user_selection(sel, user_id, t)
    IN  [ids |-> r.ids, sel |-> clear_user_selection(r.sel, user_id),
         text |-> IF r.some /\ r.ids # {} THEN "selection_ready"
                  ELSE "no_transcripts_selected"]

use_selected_transcripts(sel, user_id, t) ==
    LET r == get_user_selection(sel, user_id, t)
    IN  [ids |-> r.ids, sel |-> r.sel,
         text |-> IF r.some /\ r.ids # {} THEN "selection_ready"
                  ELSE "no_transcripts_selected"]

UseSelected ==
    \E user_id \in Users, action_id \in PickerConfirmIds :
      \E r \in {use_selected_transcripts(USER_TRANSCRIPT_SELECTIONS, user_id, now)} :
        /\ USER_TRANSCRIPT_SELECTIONS' = r.sel
        /\ last' = [Before("use_selected", user_id, action_id) EXCEPT
                        !.h = [@ EXCEPT !.ids = r.ids,
                                        !.response = Resp("ephemeral", r.text)]]
        /\ UNCHANGED <<inflight, LINEAR_TEST_MODE, now, USER_PENDING_TICKETS, button>>

\* the values a yes/no action of a user can carry: none, or the compact
\* payload of the buttons last shown to that user
NoValue == [present |-> FALSE, user_id |-> "", original_request |-> <<>>,
            analysis |-> EmptyStr]
ValuesOf(user_id) ==
    {NoValue} \cup
    IF button[user_id].present
    THEN {[present |-> TRUE, user_id |-> button[user_id].user_id,
           original_request |-> button[user_id].original_request,
           analysis |-> button[user_id].analysis]}
    ELSE {}

\* the tracker behaviours that make a difference for a list of tickets
EnvsFor(tickets) ==
    { e \in Envs :
        /\ e.failAt <= Len(tickets)
        /\ (~e.team => e.failAt = 0 /\ e.lookup = "found")
        /\ (e.lookup # "notfound" => e.createOk)
        /\ ((\A i \in 1..Len(tickets) : ~tickets[i].project) => e.lookup = "found") }

ConfirmInputs ==
    { [DefaultInp EXCEPT !.promptOk = FALSE],
      [DefaultInp EXCEPT !.extraction = "fail"],
      [DefaultInp EXCEPT !.extraction = "invalid_json"] }
    \cup UNION { { [DefaultInp EXCEPT !.tickets = ts, !.env = e] : e \in EnvsFor(ts) } :
                 ts \in TicketLists }

\* create_tickets_yes (580-653): the pending entry is seeded from the value
\* whenever the value carries an analysis and a request, then the
\* confirmation runs
seed_pending(pend, user_id, value, t) ==
    IF value.present /\ Truthy(value.analysis) /\ value.original_request # <<>>
    THEN [clear_pending_tickets(pend, user_id) EXCEPT ![user_id] =
             Pending("", value.original_request, value.analysis, t, user_id)]
    ELSE pend

MarkAnswered(btn, user_id) ==
    IF btn[user_id].present THEN [btn EXCEPT ![user_id].answered = TRUE] ELSE btn

ConfirmYesWith(inputs) ==
    \E user_id \in Users : \E value \in ValuesOf(user_id), inp \in inputs :
      \* without a pending entry the collaborators are never consulted
      /\ (~get_pending_tickets(seed_pending(USER_PENDING_TICKETS, user_id, value, now),
                               user_id, now).some => inp = DefaultInp)
      /\ \E out \in {handle_create_tickets_confirmation(
                         HandlerOut(USER_TRANSCRIPT_SELECTIONS,
                                    seed_pending(USER_PENDING_TICKETS, user_id, value, now),
                                    button),
                         user_id, TRUE, now, LINEAR_TEST_MODE, inp)} :
          /\ USER_PENDING_TICKETS' = out.pend
          /\ button' = MarkAnswered(button, user_id)
          /\ last' = [Before("yes", user_id, "create_tickets_yes") EXCEPT
                          !.value = value,
                          !.h = Obs(out),
                          !.posts = <<Post("ack", Resp("ephemeral", "creating_tickets")),
                                      Post("final", Resp("ephemeral", out.response.text))>>]
          /\ UNCHANGED <<inflight, LINEAR_TEST_MODE, now, USER_TRANSCRIPT_SELECTIONS>>

ConfirmYes == ConfirmYesWith(ConfirmInputs)

\* a yes action whose structured extraction may hold a ticket with a
\* priority or time estimate that is not a number
LooseConfirmInputs ==
    UNION { { [DefaultInp EXCEPT !.tickets = ts, !.env = e] : e \in EnvsFor(ts) } :
            ts \in UNION { [1..n -> LooseTickets] : n \in 0..MaxTickets } }
ConfirmYesLoose == ConfirmYesWith(LooseConfirmInputs)

\* create_tickets_no (655-712): the value is not consulted
ConfirmNo ==
    \E user_id \in Users : \E value \in ValuesOf(user_id) :
      \E out \in {handle_create_tickets_confirmation(
                      HandlerOut(USER_TRANSCRIPT_SELECTIONS, USER_PENDING_TICKETS, button),
                      user_id, FALSE, now, LINEAR_TEST_MODE, DefaultInp)} :
          /\ USER_PENDING_TICKETS' = out.pend
          /\ button' = MarkAnswered(button, user_id)
          /\ last' = [Before("no", user_id, "create_tickets_no") EXCEPT
                          !.value = value,
                          !.h = Obs(out),
                          !.posts = <<Post("ack", Resp("ephemeral", "cancelling")),
                                      Post("final", Resp("ephemeral", out.response.text))>>]
          /\ UNCHANGED <<inflight, LINEAR_TEST_MODE, now, USER_TRANSCRIPT_SELECTIONS>>

(***************************************************************************)
(* Direct calls of the LinearService operations                            *)
(***************************************************************************)
LinearOps == WriteOps \cup {"get_or_create_milestone", "get_or_create_project"}

linear_call(op, tm, issue_data, env) ==
    CASE op = "create_issue" ->
           LET r == create_issue(tm, issue_data, env, env.failAt = 1)
           IN  Result(r.raised, r.ok, r.trace)
      [] op = "create_milestone" -> create_milestone(tm, env)
      [] op = "_create_project" -> create_project(tm, env)
      [] op = "_delete_issue" -> delete_issue(tm, env)
      [] op = "update_issue" -> update_issue(tm, env)
      [] op = "get_or_create_milestone" -> get_or_create_milestone(tm, env)
      [] OTHER -> get_or_create_project(tm, env)

LinearCall ==
    \E op \in LinearOps, issue_data \in Tickets, env \in Envs :
      \E r \in {linear_call(op, LINEAR_TEST_MODE, issue_data, env)} :
          /\ env.failAt <= 1
          /\ last' = [NoObs EXCEPT !.op = "linear", !.command = op,
                          !.trace = r.trace,
                          !.h = [@ EXCEPT !.exc = IF r.raised THEN "SafetyError" ELSE "",
                                          !.requested = Requests(r.trace) # <<>>,
                                          !.mutated = MutationsSent(r.trace) # <<>>,
                                          !.gated = Gated(r.trace)]]
          /\ UNCHANGED <<inflight, LINEAR_TEST_MODE, now, USER_TRANSCRIPT_SELECTIONS,
                         USER_PENDING_TICKETS, button>>

\* the context assembler runs against some state of the two data sources
AssembleContext ==
    \E store \in StoreOutcomes, fetch \in FetchOutcomes, format \in FormatOutcomes :
      LET r == get_comprehensive_context(store, fetch, format, now)
      IN  /\ last' = [NoObs EXCEPT !.op = "context",
                         !.ctx = [store |-> store, fetch |-> fetch,
                                  format |-> format, parts |-> r.parts,
                                  stamp |-> r.stamp, raised |-> r.raised]]
          /\ UNCHANGED <<inflight, LINEAR_TEST_MODE, now, USER_TRANSCRIPT_SELECTIONS,
                         USER_PENDING_TICKETS, button>>

(***************************************************************************)
(* Two steps of one create command (command_handler.py 954-1022): up to    *)
(* the await of the AI call, and from the return of the AI call on.  The   *)
(* handler reads and writes the per-user maps only in the second step.     *)
(***************************************************************************)
RaceTexts == {<<"r1">>, <<"r2">>}
Finished(reqs) == {k \in DOMAIN reqs : reqs[k].state = "done"}

\* a create command arrives and runs up to the await of the AI call
StartCreate ==
    \E user_id \in Users, text \in RaceTexts :
        /\ Len(inflight) < MaxRequests
        /\ inflight' = Append(inflight,
               [user_id |-> user_id, text |-> text, state |-> "awaiting",
                stored |-> FALSE, finished |-> 0])
        /\ last' = [Before("start_create", user_id, "/create") EXCEPT !.text = text]
        /\ UNCHANGED <<LINEAR_TEST_MODE, now, USER_TRANSCRIPT_SELECTIONS,
                       USER_PENDING_TICKETS, button>>

\* a create command whose AI call returned a record only when the user has none
FinishCreate_keeping ==
    \E k \in DOMAIN inflight, aiOk \in BOOLEAN :
      LET r == inflight[k]
          inp == [DefaultInp EXCEPT !.aiOk = aiOk, !.analysis = LongAnalysis]
          out == handle_create_ticket_command(
                     HandlerOut(USER_TRANSCRIPT_SELECTIONS, USER_PENDING_TICKETS, button),
                     r.user_id, r.text, now, inp)
          kept == USER_PENDING_TICKETS[r.user_id].present
      IN  /\ r.state = "awaiting"
          /\ USER_PENDING_TICKETS' = IF kept THEN USER_PENDING_TICKETS ELSE out.pend
          /\ button' = out.btn
          /\ inflight' = [inflight EXCEPT ![k] =
                 [r EXCEPT !.state = "done", !.stored = aiOk,
                           !.finished = Cardinality(Finished(inflight)) + 1]]
          /\ last' = [Before("finish_create", r.user_id, "/create") EXCEPT
                         !.text = r.text, !.h = Obs(out)]
          /\ UNCHANGED <<LINEAR_TEST_MODE, now, USER_TRANSCRIPT_SELECTIONS>>

\* the AI call of a create command returns or raises, and the handler runs
\* to its end
FinishCreate ==
    \E k \in DOMAIN inflight, aiOk \in BOOLEAN :
      LET r == inflight[k]
          inp == [DefaultInp EXCEPT !.aiOk = aiOk, !.analysis = LongAnalysis]
          out == handle_create_ticket_command(
                     HandlerOut(USER_TRANSCRIPT_SELECTIONS, USER_PENDING_TICKETS, button),
                     r.user_id, r.text, now, inp)
      IN  /\ r.state = "awaiting"
          /\ USER_PENDING_TICKETS' = out.pend
          /\ button' = out.btn
          /\ inflight' = [inflight EXCEPT ![k] =
                 [r EXCEPT !.state = "done", !.stored = aiOk,
                           !.finished = Cardinality(Finished(inflight)) + 1]]
          /\ last' = [Before("finish_create", r.user_id, "/create") EXCEPT
                         !.text = r.text, !.h = Obs(out)]
          /\ UNCHANGED <<LINEAR_TEST_MODE, now, USER_TRANSCRIPT_SELECTIONS>>

(***************************************************************************)
(* The webhook ingress (webhook_handler.py 68-297).  A request carries a   *)
(* signature header, a timestamp header (its age in minutes when present), *)
(* and a body.                                                             *)
(***************************************************************************)
Endpoints == {"events", "commands", "interactive"}
Signatures == {"valid", "invalid", "missing"}
\* the age of the request timestamp: now, at the limit, past it, or as far
\* in the future
RequestAges == {0, REQUEST_MAX_AGE_MINUTES, REQUEST_MAX_AGE_MINUTES + 1,
                0 - (REQUEST_MAX_AGE_MINUTES + 1)}
Bodies == {"event_callback", "url_verification", "other", "malformed"}
Abs(n) == IF n < 0 THEN 0 - n ELSE n

\* the signature is compared with the one computed from the signing secret
verify_slack_signature(secret, signature) ==
    IF ~secret THEN FALSE ELSE signature = "valid"

slack_events(secret, signature, timestamp, age, body) ==
    IF ~verify_slack_signature(secret, signature)
    THEN [status |-> 403, scheduled |-> "none"]
    ELSE IF timestamp = "missing" THEN [status |-> 500, scheduled |-> "none"]
    ELSE IF Abs(age) > REQUEST_MAX_AGE_MINUTES
    THEN [status |-> 403, scheduled |-> "none"]
    ELSE IF body = "malformed" THEN [status |-> 400, scheduled |-> "none"]
    ELSE IF body = "event_callback"
    THEN [status |-> 200, scheduled |-> "handle_event"]
    ELSE [status |-> 200, scheduled |-> "none"]

\* the form fields are bound before the body of the endpoint runs; the
\* body only looks for the timestamp header
slack_commands(timestamp, body) ==
    IF body = "malformed" THEN [status |-> 422, scheduled |-> "none"]
    ELSE IF timestamp = "missing" THEN [status |-> 403, scheduled |-> "none"]
    ELSE [status |-> 200, scheduled |-> "handle_command"]

slack_interactive(timestamp, body) ==
    IF body = "malformed" THEN [status |-> 400, scheduled |-> "none"]
    ELSE IF timestamp = "missing" THEN [status |-> 403, scheduled |-> "none"]
    ELSE [status |-> 200, scheduled |-> "handle_interaction"]

\* a request arrives at one of the inbound endpoints
Ingress ==
    \E endpoint \in Endpoints, secret \in BOOLEAN, signature \in Signatures,
       timestamp \in {"present", "missing"}, age \in RequestAges, body \in Bodies :
      LET r == CASE endpoint = "events" ->
                       slack_events(secret, signature, timestamp, age, body)
                 [] endpoint = "commands" -> slack_commands(timestamp, body)
                 [] OTHER -> slack_interactive(timestamp, body)
      IN  /\ timestamp = "missing" => age = 0
          /\ last' = [NoObs EXCEPT !.op = "ingress",
                         !.req = [endpoint |-> endpoint, secret |-> secret,
                                  signature |-> signature, timestamp |-> timestamp,
                                  age |-> age, body |-> body, status |-> r.status,
                                  scheduled |-> r.scheduled]]
          /\ UNCHANGED <<inflight, LINEAR_TEST_MODE, now, USER_TRANSCRIPT_SELECTIONS,
                         USER_PENDING_TICKETS, button>>

(***************************************************************************)
(* The answer buttons of the pickers (event_handler.py 327-408, 449-530)   *)
(* and SlackService.send_message (slack_service.py 27-42).  The value of   *)
(* a button is the question embedded when the picker was shown.            *)
(***************************************************************************)
AnswerSelectedIds == {"answer_with_selected", "answer_inline_selected"}
AnswerAllIds == {"answer_with_all", "answer_inline_all"}
ButtonQuestions == {<<>>, <<"q1">>}

\* send_message takes channel, text and blocks; any other keyword is a
\* TypeError at the call
send_message(keywords, response) ==
    IF keywords \subseteq {"channel", "text", "blocks"}
    THEN [posts |-> <<Post("message", response)>>, raised |-> FALSE]
    ELSE [posts |-> <<>>, raised |-> TRUE]

\* the message of a button handler and, when sending it raises, the error
\* message of its except arm, both sent with channel, text and user
send_to_user(response) ==
    LET s == send_message({"channel", "text", "user"}, response)
        e == send_message({"channel", "text", "user"},
                          ErrResp("error_processing_request", "TypeError"))
    IN  IF ~s.raised THEN [posts |-> s.posts, escaped |-> FALSE]
        ELSE [posts |-> e.posts, escaped |-> e.raised]

\* answer_with_selected / answer_inline_selected
answer_selected(out0, user_id, value, t, inp) ==
    LET out == [out0 EXCEPT !.handler = "answer_selected"]
        r == get_user_selection(out.sel, user_id, t)
    IN  IF r.some /\ r.ids # {} /\ value # <<>>
        THEN handle_chat_with_selected_transcripts(
                 [out EXCEPT !.sel = clear_user_selection(r.sel, user_id)],
                 r.ids, value, inp)
        ELSE [out EXCEPT !.sel = r.sel,
                         !.response = Resp("ephemeral", "please_select_first")]

\* answer_with_all / answer_inline_all: the question is run as a chat command
answer_all(out0, user_id, value, t, inp) ==
    IF value # <<>>
    THEN handle_chat_command(out0, user_id, value, t, inp)
    ELSE [out0 EXCEPT !.handler = "answer_all",
                      !.response = Resp("ephemeral", "question_not_found")]

AnswerSelected ==
    \E user_id \in Users, action_id \in AnswerSelectedIds,
       value \in ButtonQuestions, inp \in InputsFor("/chat", {EmptyStr}) :
      \E out \in {answer_selected(
                      HandlerOut(USER_TRANSCRIPT_SELECTIONS, USER_PENDING_TICKETS, button),
                      user_id, value, now, inp)} :
        \E d \in {send_to_user(out.response)} :
          /\ USER_TRANSCRIPT_SELECTIONS' = out.sel
          /\ last' = [Before("answer_selected", user_id, action_id) EXCEPT
                          !.text = value, !.h = Obs(out),
                          !.posts = d.posts, !.escaped = d.escaped]
          /\ UNCHANGED <<inflight, LINEAR_TEST_MODE, now, USER_PENDING_TICKETS, button>>

AnswerAll ==
    \E user_id \in Users, action_id \in AnswerAllIds,
       value \in ButtonQuestions, inp \in InputsFor("/chat", {EmptyStr}) :
      \E out \in {answer_all(
                      HandlerOut(USER_TRANSCRIPT_SELECTIONS, USER_PENDING_TICKETS, button),
                      user_id, value, now, inp)} :
        \E d \in {send_to_user(IF out.exc # ""
                               THEN ErrResp("error_processing_request", out.exc)
                               ELSE out.response)} :
          /\ USER_TRANSCRIPT_SELECTIONS' = out.sel
          /\ last' = [Before("answer_all", user_id, action_id) EXCEPT
                          !.text = value, !.h = Obs(out),
                          !.posts = d.posts, !.escaped = d.escaped]
          /\ UNCHANGED <<inflight, LINEAR_TEST_MODE, now, USER_PENDING_TICKETS, button>>

\* the formatter renders some workspace snapshot
RenderWorkspace ==
    \E linear_context \in Snapshots :
        /\ last' = [NoObs EXCEPT !.op = "render",
                       !.render = [snapshot |-> linear_context,
                                   projects |-> format_projects_section(linear_context)]]
        /\ UNCHANGED <<inflight, LINEAR_TEST_MODE, now, USER_TRANSCRIPT_SELECTIONS,
                       USER_PENDING_TICKETS, button>>

(***************************************************************************)
(* Two steps of one chat command with a question (command_handler.py       *)
(* 318-391): up to the await of the AI call, and its return.  The          *)
(* selection is read and cleared in the first step.                        *)
(***************************************************************************)
\* the selection is made before the chat commands are issued
SelectBeforeChats == inflight = <<>> /\ SelectTranscripts

\* a chat command that leaves the selection it read in place until its AI
\* call has returned
StartChat_reading ==
    \E user_id \in Users, text \in RaceTexts :
      LET out == handle_chat_command(
                     HandlerOut(USER_TRANSCRIPT_SELECTIONS, USER_PENDING_TICKETS, button),
                     user_id, text, now, DefaultInp)
      IN  /\ Len(inflight) < MaxRequests
          /\ UNCHANGED USER_TRANSCRIPT_SELECTIONS
          /\ inflight' = Append(inflight,
                 [user_id |-> user_id, text |-> text, state |-> "awaiting",
                  context |-> out.context, ids |-> out.ids])
          /\ last' = [Before("start_chat", user_id, "/chat") EXCEPT
                         !.text = text, !.h = Obs(out)]
          /\ UNCHANGED <<LINEAR_TEST_MODE, now, USER_PENDING_TICKETS, button>>

\* a chat command arrives and runs up to the await of its AI call
StartChat ==
    \E user_id \in Users, text \in RaceTexts :
      LET out == handle_chat_command(
                     HandlerOut(USER_TRANSCRIPT_SELECTIONS, USER_PENDING_TICKETS, button),
                     user_id, text, now, DefaultInp)
      IN  /\ Len(inflight) < MaxRequests
          /\ USER_TRANSCRIPT_SELECTIONS' = out.sel
          /\ inflight' = Append(inflight,
                 [user_id |-> user_id, text |-> text, state |-> "awaiting",
                  context |-> out.context, ids |-> out.ids])
          /\ last' = [Before("start_chat", user_id, "/chat") EXCEPT
                         !.text = text, !.h = Obs(out)]
          /\ UNCHANGED <<LINEAR_TEST_MODE, now, USER_PENDING_TICKETS, button>>

\* the AI call of a chat command returns or raises and the response is built
FinishChat ==
    \E k \in DOMAIN inflight, aiOk \in BOOLEAN :
        /\ inflight[k].state = "awaiting"
        /\ inflight' = [inflight EXCEPT ![k].state = "done"]
        /\ last' = [Before("finish_chat", inflight[k].user_id, "/chat") EXCEPT
                       !.text = inflight[k].text,
                       !.h = [@ EXCEPT !.context = inflight[k].context,
                                       !.ids = inflight[k].ids,
                                       !.ai_calls = 1,
                                       !.question = inflight[k].text,
                                       !.response =
                                           IF aiOk THEN Resp("ephemeral", "ai_response")
                                           ELSE ErrResp("error_generating", "AIError")]]
        /\ UNCHANGED <<LINEAR_TEST_MODE, now, USER_TRANSCRIPT_SELECTIONS,
                       USER_PENDING_TICKETS, button>>

(***************************************************************************)
(* Specifications                                                          *)
(***************************************************************************)
\* the dispatcher alone: one user, every command name, every delivery outcome
NextDispatch == Command({"U1"}, Commands, FirstPost, Analyses) \/ AssembleContext
SpecDispatch == Init /\ [][NextDispatch]_vars

\* the ticket confirmation protocol, two users, every analysis too long for
\* the compact payload
CreateCommands == {"/create", "/create-ticket"}
NextTickets ==
    Tick \/ Command(Users, CreateCommands, {"200"}, {LongAnalysis}) \/ ConfirmYes \/ ConfirmNo
SpecTickets == Init /\ [][NextTickets]_vars

\* the transcript selection protocol
NextSelection ==
    Tick \/ Command(Users, {"/chat"}, {"200"}, Analyses) \/ SelectTranscripts \/ UseSelected
SpecSelection == Init /\ [][NextSelection]_vars

\* create commands whose analysis is empty, fits the compact payload, or is
\* too long for it, and the yes actions that read the payload back
PayloadAnalyses == {EmptyStr, ShortAnalysis, LongAnalysis}
NextPayload == Command(Users, CreateCommands, {"200"}, PayloadAnalyses) \/ ConfirmYes
SpecPayload == Init /\ [][NextPayload]_vars

\* the confirmation with any ticket objects in the extraction
NextConfirm == Command(Users, CreateCommands, {"200"}, {ShortAnalysis}) \/ ConfirmYesLoose
SpecConfirm == Init /\ [][NextConfirm]_vars

\* two users doing everything that touches the two per-user maps
IsolationInputs ==
    {DefaultInp, [DefaultInp EXCEPT !.tickets = <<CHOOSE t \in Tickets : TRUE>>]}
IsolationTexts(command) ==
    IF command = "/chat" THEN {<<"q1">>, <<"select">>} ELSE {<<"r1">>}
IsolationCommand ==
    \E user_id \in Users, command \in {"/chat", "/create"} :
      \E text \in IsolationTexts(command) :
        HandleCommand(user_id, command, text,
                      [DefaultInp EXCEPT !.analysis = LongAnalysis], "200", "ok")
NextIsolation ==
    \/ Tick
    \/ IsolationCommand
    \/ SelectTranscripts \/ UseSelected
    \/ ConfirmYesWith(IsolationInputs) \/ ConfirmNo
SpecIsolation == Init /\ [][NextIsolation]_vars

\* the pickers and their answer buttons
NextAnswer == Tick \/ SelectTranscripts \/ AnswerSelected \/ AnswerAll
SpecAnswer == Init /\ [][NextAnswer]_vars

\* the context assembler called again and again as time passes
NextContext == Tick \/ AssembleContext \/ RenderWorkspace
SpecContext == Init /\ [][NextContext]_vars

\* the inbound endpoints
NextIngress == Tick \/ Ingress
SpecIngress == Init /\ [][NextIngress]_vars

\* chat commands whose AI calls overlap, after a selection was made
NextChatRace == Tick \/ SelectBeforeChats \/ StartChat \/ FinishChat
SpecChatRace == Init /\ [][NextChatRace]_vars

\* create commands whose AI calls overlap
NextRace == Tick \/ StartCreate \/ FinishCreate
SpecRace == Init /\ [][NextRace]_vars

\* everything that can reach the issue tracker
NextLinear ==
    LinearCall \/ Command({"U1"}, CreateCommands \cup {"/update"}, {"200"}, Analyses) \/ ConfirmYes
SpecLinear == Init /\ [][NextLinear]_vars

(***************************************************************************)
(* Properties.  `last` is the observation of the action that led to the    *)
(* state; in an action formula the unprimed variables are the state the    *)
(* handler started from and last' is what it did.                          *)
(***************************************************************************)
\* a chat text that is a question: not empty, not a picker keyword, not a
\* "with <question>" request
DefaultPathText(text) ==
    /\ text # <<>>
    /\ ~(Len(text) = 1 /\ text[1] \in PickerWords)
    /\ ~(Len(text) > 1 /\ text[1] = "with")

C3_NoCancels ==
    (last.op = "no" /\ last.pre_pend = "valid") =>
        /\ last.h.response = Resp("ephemeral", "cancelled")
        /\ ~last.h.requested /\ last.h.creates = 0 /\ last.h.ai_calls = 0
        /\ ~USER_PENDING_TICKETS[last.user].present
C3_Witness ==
    /\ last.op = "no" /\ last.pre_pend = "valid"
    /\ last.h.response.text = "cancelled"
    /\ ~USER_PENDING_TICKETS[last.user].present

\* C4: once a yes or no action of a user has been processed, a further yes
\* or no action of that user with no create in between reports that nothing
\* is pending and makes no tracker call.
C4_ConsumedOnce ==
    [][ (/\ last'.op \in {"yes", "no"}
         /\ button[last'.user].present
         /\ button[last'.user].answered)
        => (/\ last'.h.response.text = "no_pending"
            /\ ~last'.h.requested /\ last'.h.creates = 0) ]_vars

\* C5: a yes or no action more than ten minutes after the create that
\* produced the prompt is treated as nothing pending and makes no tracker
\* call.
C5_ExpiredPendingIgnored ==
    [][ (/\ last'.op \in {"yes", "no"}
         /\ button[last'.user].present
         /\ now - button[last'.user].issued_at > PENDING_TICKET_TIMEOUT_MINUTES)
        => (/\ last'.h.response.text = "no_pending"
            /\ ~last'.h.requested /\ last'.h.creates = 0) ]_vars

\* C6: with test mode disabled every call of a write operation, direct or
\* reached through get_or_create_project, get_or_create_milestone or a
\* handler, raises the safety error at once, before any request of that
\* operation, and no mutation is ever sent.
C6_WritesGated ==
    ~LINEAR_TEST_MODE =>
        /\ last.h.gated
        /\ ~last.h.mutated
        /\ (last.op = "linear" /\ last.command \in WriteOps) =>
              /\ last.h.exc = "SafetyError"
              /\ last.trace = <<<<"call", last.command>>, <<"raise", last.command>>>>
C6_Witness ==
    /\ ~LINEAR_TEST_MODE
    /\ last.op = "linear" /\ last.command = "get_or_create_milestone"
    /\ last.h.exc = "SafetyError"
    /\ Len(Requests(last.trace)) = 1 /\ ~last.h.mutated
    /\ \E i \in 1..Len(last.trace) : last.trace[i] = <<"raise", "create_milestone">>

\* C7 as stated: whenever a user has an unexpired selection, that user's next
\* chat invocation answers from the stored ids and deletes the selection.
C7_AnyChatConsumes ==
    [][ (/\ last'.op = "command" /\ last'.command = "/chat"
         /\ SelectionStatus(USER_TRANSCRIPT_SELECTIONS, last'.user, now) = "valid")
        => (/\ last'.h.context = "selected"
            /\ last'.h.ids = USER_TRANSCRIPT_SELECTIONS[last'.user].transcript_ids
            /\ ~USER_TRANSCRIPT_SELECTIONS'[last'.user].present) ]_vars

\* C7 amended: a chat invocation whose text is a question, by a user with an
\* unexpired selection of at least one id, hands exactly the stored ids to
\* the selected-transcripts answer, which uses those of them the store
\* returns, and deletes the selection; a question of a user without such a
\* selection is answered from the default context.
C7_QuestionConsumesSelection ==
    [][ (/\ last'.op = "command" /\ last'.command = "/chat"
         /\ DefaultPathText(last'.text))
        => IF /\ SelectionStatus(USER_TRANSCRIPT_SELECTIONS, last'.user, now) = "valid"
              /\ USER_TRANSCRIPT_SELECTIONS[last'.user].transcript_ids # {}
           THEN /\ last'.h.context = "selected"
                /\ last'.h.ids = USER_TRANSCRIPT_SELECTIONS[last'.user].transcript_ids
                /\ last'.h.answered \subseteq last'.h.ids
                /\ (last'.h.ai_calls = 1 <=> last'.h.answered # {})
                /\ ~USER_TRANSCRIPT_SELECTIONS'[last'.user].present
           ELSE /\ last'.h.context = "default"
                /\ last'.h.ids = {} ]_vars
C7_Witness ==
    /\ last.op = "command" /\ last.command = "/chat" /\ last.pre_sel = "valid"
    /\ last.h.context = "selected"
    /\ last.h.ids = {"t1", "t2"} /\ last.h.answered = {"t2"}
    /\ last.h.response.text = "ai_response_selected"
    /\ ~USER_TRANSCRIPT_SELECTIONS[last.user].present

\* C8: a selection read more than ten minutes after it was stored is
\* absent: the chat that reads it finds nothing, removes the entry and
\* answers from the default context; no chat answers from an expired
\* selection.
C8_ExpiredSelectionAbsent ==
    (last.op = "command" /\ last.command = "/chat" /\ last.pre_sel = "expired") =>
        /\ last.h.context # "selected"
        /\ last.h.ids = {}
        /\ DefaultPathText(last.text) =>
              /\ last.h.context = "default"
              /\ ~USER_TRANSCRIPT_SELECTIONS[last.user].present
C8_Witness ==
    /\ last.op = "command" /\ last.command = "/chat" /\ last.pre_sel = "expired"
    /\ now > SELECTION_TIMEOUT_MINUTES
    /\ last.h.context = "default" /\ last.h.response.text = "ai_response"
    /\ ~USER_TRANSCRIPT_SELECTIONS[last.user].present

\* C9: when a handler raises, handle_command delivers an ephemeral error
\* quoting the exception as its primary post and returns; no exception
\* leaves handle_command, whatever the handler and the delivery do.
C9_NothingEscapes ==
    last.op = "command" =>
        /\ ~last.escaped
        /\ Len(last.posts) >= 1
        /\ last.h.exc # "" =>
              /\ last.posts[1].kind = "primary"
              /\ last.posts[1].response_type = "ephemeral"
              /\ last.posts[1].text = "error_processing"
              /\ last.posts[1].exc = last.h.exc
C9_Witness ==
    /\ last.op = "command" /\ last.h.exc = "KeyError" /\ last.first = "error"
    /\ last.posts[1].text = "error_processing" /\ last.posts[1].exc = "KeyError"
    /\ ~last.escaped

\* C10: handle_command selects the handler by exact comparison of the
\* command name; any other name is answered with the ephemeral "Unknown
\* command" response; every delivered payload is ephemeral or in_channel.
Routing ==
    { <<"/chat", "chat">>, <<"/summarize", "summarize">>, <<"/create", "create">>,
      <<"/create-ticket", "create">>, <<"/update", "update">>,
      <<"/teammember", "teammember">>, <<"/weekly-summary", "weekly-summary">> }
C10_ExactRouting ==
    last.op = "command" =>
        /\ IF \E p \in Routing : p[1] = last.command
           THEN <<last.command, last.h.handler>> \in Routing
           ELSE /\ last.h.handler = "none"
                /\ last.h.response = Resp("ephemeral", "unknown_command")
                /\ last.posts[1].text = "unknown_command"
                /\ last.posts[1].response_type = "ephemeral"
        /\ \A i \in 1..Len(last.posts) :
              last.posts[i].response_type \in {"ephemeral", "in_channel"}
C10_Witness ==
    /\ last.op = "command" /\ last.command = "/CHAT"
    /\ last.h.handler = "none"
    /\ last.posts[1].text = "unknown_command"

\* C11: for every /summarize text exactly one summary branch runs: empty
\* text or a first word of last/recent/latest selects the recent-meeting
\* summary; otherwise a text containing "client" in any case selects the
\* client-status branch; any other text selects the recent-meeting summary.
C11_SummarizeBranch ==
    (last.op = "command" /\ last.command = "/summarize") =>
        /\ last.h.handler = "summarize"
        /\ last.h.branch =
              IF last.text = <<>> THEN "meeting_summary"
              ELSE IF Lower(last.text[1]) \in {"last", "recent", "latest"}
                   THEN "meeting_summary"
              ELSE IF \E i \in 1..Len(last.text) : Lower(last.text[i]) = "client"
                   THEN "client_summary"
              ELSE "meeting_summary"
        /\ (last.h.branch = "meeting_summary" =>
                last.h.response.text \in {"no_recent_meetings", "error_meeting_summary",
                                          "meeting_summary"})
        /\ (last.h.branch = "client_summary" =>
                last.h.response.text \in {"please_specify_client", "error_client_summary",
                                          "client_status"})
C11_Witness ==
    /\ last.op = "command" /\ last.command = "/summarize"
    /\ last.text = <<"client", "acme">>
    /\ last.h.branch = "client_summary" /\ last.h.response.text = "client_status"

\* C12: the /update handler calls update_issue only in test mode: with
\* test mode disabled it answers with the ephemeral analysis and makes no
\* update call; with test mode enabled and an AI output naming a ticket and
\* its updates it makes exactly one update call and answers a successful
\* update with the in_channel confirmation; any other AI output makes none.
C12_UpdateOnlyInTestMode ==
    (last.op = "command" /\ last.command = "/update") =>
        /\ ~LINEAR_TEST_MODE =>
              /\ last.h.updates = 0 /\ ~last.h.mutated
              /\ (last.text # <<>> /\ last.h.exc = "" /\ last.ai # "fail") =>
                    last.h.response = Resp("ephemeral", "update_analysis")
        /\ (LINEAR_TEST_MODE /\ last.text # <<>> /\ last.h.exc = "") =>
              IF last.ai = "update"
              THEN /\ last.h.updates = 1
                   /\ last.h.response \in {Resp("in_channel", "ticket_updated"),
                                            Resp("ephemeral", "failed_update")}
                   /\ last.h.mutated
              ELSE last.h.updates = 0 /\ last.h.response.response_type = "ephemeral"
        /\ last.text = <<>> => last.h.updates = 0
C12_Witness ==
    /\ last.op = "command" /\ last.command = "/update" /\ LINEAR_TEST_MODE
    /\ last.ai = "update" /\ last.h.updates = 1
    /\ last.h.response = Resp("in_channel", "ticket_updated")

\* C13: in test mode every title the confirmation path sends to the tracker
\* carries the test marker exactly once.
C13_MarkedOnce ==
    (last.op = "yes" /\ LINEAR_TEST_MODE) => last.h.marks \subseteq {1}

\* C14: on a yes action of a user with an unexpired pending confirmation in
\* memory, the structured extraction is given the request and the analysis
\* of the in-memory record, which keeps its timestamp until it is consumed;
\* the copy in the action value is used only when the lookup misses.
C14_MemoryBeforePayload ==
    [][ (/\ last'.op = "yes" /\ last'.h.ai_calls = 1
         /\ PendingStatus(USER_PENDING_TICKETS, last'.user, now) = "valid")
        => (/\ last'.h.analysis = USER_PENDING_TICKETS[last'.user].analysis
            /\ last'.h.question = USER_PENDING_TICKETS[last'.user].original_request)
      ]_vars

\* C15: a user has at most one selection: a selection action replaces the
\* user's entry, ids and timestamp, whatever was there; a read within ten
\* minutes of that action returns exactly the ids of that action and a read
\* later than that returns nothing; the entries of other users are left
\* alone.
C15_SelectionOverwrites ==
    [][ last'.op = "select" =>
          /\ USER_TRANSCRIPT_SELECTIONS'[last'.user] =
                [present |-> TRUE, transcript_ids |-> last'.h.ids, timestamp |-> now]
          /\ \A u \in Users \ {last'.user} :
                USER_TRANSCRIPT_SELECTIONS'[u] = USER_TRANSCRIPT_SELECTIONS[u]
          /\ \A t \in now..(now + SELECTION_TIMEOUT_MINUTES + 1) :
                LET r == get_user_selection(USER_TRANSCRIPT_SELECTIONS', last'.user, t)
                IN  IF t - now <= SELECTION_TIMEOUT_MINUTES
                    THEN r.some /\ r.ids = last'.h.ids
                    ELSE ~r.some /\ ~r.sel[last'.user].present ]_vars
C15_Witness ==
    /\ last.op = "select" /\ last.pre_sel = "expired"
    /\ now > SELECTION_TIMEOUT_MINUTES
    /\ last.h.ids = {"t1"}
    /\ USER_TRANSCRIPT_SELECTIONS[last.user] =
          [present |-> TRUE, transcript_ids |-> {"t1"}, timestamp |-> now]

C17_AtMostTwoPosts ==
    last.op = "command" =>
        /\ Len(last.posts) \in {1, 2}
        /\ last.posts[1].kind = "primary"
        /\ (Len(last.posts) = 2 <=> last.first = "timeout")
        /\ Len(last.posts) = 2 =>
              last.posts[2] = Post("fallback", Resp("ephemeral", "still_processing"))
        /\ last.first \in {"non200", "error"} => Len(last.posts) = 1
        /\ ~last.escaped
C17_Witness ==
    /\ last.op = "command" /\ last.first = "timeout" /\ last.fallback = "error"
    /\ Len(last.posts) = 2 /\ last.posts[2].kind = "fallback"
    /\ ~last.escaped

Blocks(parts) == {parts[i] : i \in DOMAIN parts}
\* C18: no exception escapes the context assembler; when the workspace
\* fetch throws, the context keeps the recent-transcripts section and holds
\* a placeholder line for the Linear section; when the transcript store
\* fails, the context holds a placeholder for the transcripts section and
\* the Linear section is as without the failure.
C18_SectionsDegrade ==
    last.op = "context" =>
        /\ ~last.ctx.raised
        /\ last.ctx.fetch = "raise" =>
              /\ Blocks(last.ctx.parts) \cap {"linear_unavailable", "linear_no_data"} # {}
              /\ last.ctx.store = "rows" => "recent_meetings" \in Blocks(last.ctx.parts)
        /\ last.ctx.store = "raise" =>
              /\ "meetings_unavailable" \in Blocks(last.ctx.parts)
              /\ last.ctx.fetch = "data" /\ last.ctx.format = "ok" =>
                    "linear_workspace" \in Blocks(last.ctx.parts)

\* the create commands of a user that stored a record, and whether all of
\* the user's commands have run to their end
StoredBy(user_id) ==
    {k \in DOMAIN inflight : inflight[k].user_id = user_id /\ inflight[k].stored}
Settled(user_id) ==
    \A k \in DOMAIN inflight :
        inflight[k].user_id = user_id => inflight[k].state = "done"
\* C19 as stated: when two create commands of a user with different requests
\* have both completed, the user's pending record is that of the command
\* issued later.
C19_LaterIssuedWins ==
    \A u \in Users : \A i, j \in StoredBy(u) :
        (Settled(u) /\ i < j /\ StoredBy(u) = {i, j}
            /\ inflight[i].text # inflight[j].text)
        => /\ USER_PENDING_TICKETS[u].present
           /\ USER_PENDING_TICKETS[u].original_request = inflight[j].text
\* C19 amended: when the create commands of a user have all completed, the
\* user has one pending record and it is that of the command whose AI call
\* returned last, whichever was issued first.
C19_LastReturnedWins ==
    \A u \in Users : \A i \in StoredBy(u) :
        (Settled(u) /\ \A j \in StoredBy(u) : inflight[j].finished <= inflight[i].finished)
        => /\ USER_PENDING_TICKETS[u].present
           /\ USER_PENDING_TICKETS[u].original_request = inflight[i].text
           /\ USER_PENDING_TICKETS[u].user_id = u
C19_Witness ==
    \E u \in Users : \E i, j \in StoredBy(u) :
        /\ Settled(u) /\ i < j /\ inflight[i].finished > inflight[j].finished
        /\ inflight[i].text # inflight[j].text
        /\ USER_PENDING_TICKETS[u].present
        /\ USER_PENDING_TICKETS[u].original_request = inflight[i].text

\* the write operations whose gate raised during the call
Refused(trace) == {trace[i][2] : i \in {k \in DOMAIN trace : trace[k][1] = "raise"}}
\* C20: with test mode disabled, every LinearService operation that reaches
\* a gated write ends by raising the safety error to its caller.
C20_SafetyErrorReachesCaller ==
    (last.op = "linear" /\ ~LINEAR_TEST_MODE /\ Refused(last.trace) \cap WriteOps # {})
        => last.h.exc = "SafetyError"

\* a request whose signature verifies against the signing secret and whose
\* timestamp is within the allowed age
Verified(req) ==
    /\ req.secret /\ req.signature = "valid"
    /\ req.timestamp = "present" /\ Abs(req.age) <= REQUEST_MAX_AGE_MINUTES
\* C21: on every inbound endpoint a handler is scheduled only for a verified
\* request, and a request that is not verified is answered 403 with no
\* handler scheduled.
C21_OnlyVerifiedScheduled ==
    last.op = "ingress" =>
        /\ last.req.scheduled # "none" => Verified(last.req)
        /\ ~Verified(last.req) =>
              last.req.status = 403 /\ last.req.scheduled = "none"

\* C22: a call of the context assembler that receives the same transcripts
\* and the same workspace snapshot as the call before it returns the same
\* string, and changes no state.
C22_SameInputsSameContext ==
    [][ ( /\ last.ctx.store # "" /\ last'.op = "context"
          /\ last'.ctx.store = last.ctx.store
          /\ last'.ctx.fetch = last.ctx.fetch
          /\ last'.ctx.format = last.ctx.format )
        => /\ last'.ctx.parts = last.ctx.parts
           /\ last'.ctx.stamp = last.ctx.stamp
           /\ UNCHANGED <<LINEAR_TEST_MODE, USER_TRANSCRIPT_SELECTIONS,
                          USER_PENDING_TICKETS, button, inflight>> ]_vars

\* C23: an 'answer with selected' click with a question and an unexpired,
\* non-empty selection asks the AI that question with those transcripts and
\* deletes the selection; without such a selection, or with an empty value,
\* no AI call is made, the instruction message is delivered to the user, and
\* a stored selection stays as it is.
C23_SelectedAnswer ==
    [][ last'.op = "answer_selected" =>
          LET u == last'.user
              ids == USER_TRANSCRIPT_SELECTIONS[u].transcript_ids
          IN  IF last'.pre_sel = "valid" /\ ids # {} /\ last'.text # <<>>
              THEN /\ last'.h.ids = ids
                   /\ last'.h.ai_calls = 1 => last'.h.question = last'.text
                   /\ ~USER_TRANSCRIPT_SELECTIONS'[u].present
              ELSE /\ last'.h.ai_calls = 0
                   /\ last'.posts =
                         <<Post("message", Resp("ephemeral", "please_select_first"))>>
                   /\ last'.pre_sel # "expired" =>
                         USER_TRANSCRIPT_SELECTIONS' = USER_TRANSCRIPT_SELECTIONS ]_vars

\* C24: a 'use all recent' click with a question answers it from the default
\* context whether or not the user has a stored selection, and leaves a
\* stored selection as it is.
C24_AllIgnoresSelection ==
    [][ (last'.op = "answer_all" /\ last'.text # <<>>) =>
          /\ last'.h.context = "default"
          /\ last'.pre_sel # "expired" =>
                USER_TRANSCRIPT_SELECTIONS' = USER_TRANSCRIPT_SELECTIONS ]_vars

\* the record a yes action builds from the value of the buttons now shown to
\* a user, in a process whose map is empty
Rehydrated(user_id) ==
    seed_pending([w \in Users |-> NoPending], user_id,
                 [present |-> TRUE, user_id |-> button[user_id].user_id,
                  original_request |-> button[user_id].original_request,
                  analysis |-> button[user_id].analysis], now)[user_id]
SamePending(a, b) ==
    /\ a.present /\ b.present /\ a.user_id = b.user_id
    /\ a.original_request = b.original_request /\ a.analysis = b.analysis
Prompted(user_id) ==
    /\ last.op = "command" /\ last.user = user_id
    /\ last.h.response.text = "confirm_prompt"
\* C25 as stated: after a create whose analysis has at most 1400 characters
\* the record re-hydrated from the action value equals the record in memory
\* in user id, request and analysis; after a create with a longer analysis
\* the value carries the first 1400 characters followed by "...".
C25_RoundTrip ==
    \A u \in Users : Prompted(u) =>
        LET mem == USER_PENDING_TICKETS[u]
        IN  IF mem.analysis.len <= CompactAnalysisBudget
            THEN SamePending(Rehydrated(u), mem)
            ELSE button[u].analysis =
                     [body |-> mem.analysis.body, len |-> CompactAnalysisBudget,
                      dots |-> TRUE]
\* C25 amended: the same, for an analysis that is not empty; with an empty
\* analysis the value re-hydrates nothing.
C25_RoundTripNonEmpty ==
    \A u \in Users : Prompted(u) =>
        LET mem == USER_PENDING_TICKETS[u]
        IN  CASE mem.analysis.len = 0 -> ~Rehydrated(u).present
              [] mem.analysis.len \in 1..CompactAnalysisBudget ->
                   SamePending(Rehydrated(u), mem)
              [] OTHER ->
                   /\ button[u].analysis =
                         [body |-> mem.analysis.body, len |-> CompactAnalysisBudget,
                          dots |-> TRUE]
                   /\ Rehydrated(u).analysis # mem.analysis
C25_Witness ==
    \E u \in Users :
        /\ Prompted(u)
        /\ USER_PENDING_TICKETS[u].analysis.len = CompactAnalysisBudget
        /\ SamePending(Rehydrated(u), USER_PENDING_TICKETS[u])

\* C26: every project of the snapshot is rendered with all of its milestones
\* and with each of its issues in exactly one of an active and a completed
\* bucket.
C26_WholeSnapshotRendered ==
    last.op = "render" =>
        \A p \in last.render.snapshot.projects :
            \E e \in last.render.projects :
                /\ e.project = p
                /\ e.milestones = {x.id : x \in {y \in last.render.snapshot.milestones :
                                                     y.project_id = p}}
                /\ e.active \cap e.completed = {}
                /\ e.active \cup e.completed =
                       {x.id : x \in {y \in last.render.snapshot.issues :
                                          y.project_id = p}}

\* the posts of a delivery that carry the response itself
Primary(posts) == {i \in DOMAIN posts : posts[i].kind = "primary"}
\* C27: every command makes exactly one primary post: the response of the
\* handler when it returned, the error message of the dispatcher when it
\* raised, and never both, whatever the delivery does.
C27_OnePrimaryPost ==
    last.op = "command" =>
        /\ Cardinality(Primary(last.posts)) = 1
        /\ \A i \in Primary(last.posts) :
              IF last.h.exc = ""
              THEN last.posts[i] = Post("primary", last.h.response)
              ELSE last.posts[i] =
                       Post("primary", ErrResp("error_processing", last.h.exc))
C27_Witness ==
    /\ last.op = "command" /\ last.h.exc # "" /\ last.first = "non200"
    /\ Cardinality(Primary(last.posts)) = 1
    /\ last.posts[1].text = "error_processing"

\* the chat commands of a user that answer from the selected transcripts
FromSelected(user_id) ==
    {k \in DOMAIN inflight :
        inflight[k].user_id = user_id /\ inflight[k].context = "selected"}
\* C28: of the chat commands of a user issued while one selection is stored,
\* at most one answers from the selected transcripts; once it has read the
\* selection the selection is gone, and every later command of the user
\* uses the default context, however the commands interleave.
C28_OneChatConsumes ==
    \A u \in Users :
        /\ Cardinality(FromSelected(u)) <= 1
        /\ FromSelected(u) # {} => ~USER_TRANSCRIPT_SELECTIONS[u].present
        /\ \A k \in FromSelected(u) : \A j \in DOMAIN inflight :
              (j > k /\ inflight[j].user_id = u) => inflight[j].context = "default"
C28_Witness ==
    \E u \in Users : \E k \in FromSelected(u) : \E j \in DOMAIN inflight :
        /\ j > k /\ inflight[j].user_id = u /\ inflight[j].context = "default"
        /\ inflight[k].state = "awaiting" /\ inflight[j].state = "awaiting"
        /\ inflight[k].ids # {}

\* C29: on a yes action, if an issue was created the response is the
\* in_channel success message, and a failure or error message is returned
\* only when no issue was created.
C29_ResponseReflectsWrites ==
    last.op = "yes" =>
        /\ last.h.created > 0 =>
              last.h.response = Resp("in_channel", "tickets_created")
        /\ last.h.response.text \in
               {"failed_to_create", "error_creating_tickets", "failed_to_parse"}
              => last.h.created = 0

\* C30: a command or an interactive action of one user leaves the selection
\* and the pending confirmation of every other user as they were.
C30_PerUserIsolation ==
    [][ \A b \in Users :
          (last'.user \in Users /\ last'.user # b) =>
              /\ USER_TRANSCRIPT_SELECTIONS'[b] = USER_TRANSCRIPT_SELECTIONS[b]
              /\ USER_PENDING_TICKETS'[b] = USER_PENDING_TICKETS[b] ]_vars
C30_Witness ==
    /\ last.op = "yes" /\ last.user = "U1" /\ last.pre_pend = "valid"
    /\ ~USER_PENDING_TICKETS["U1"].present
    /\ USER_PENDING_TICKETS["U2"].present
    /\ USER_TRANSCRIPT_SELECTIONS["U2"].present

====
